---- MODULE Spec2Model ----
(***************************************************************************)
(* ZDex: camera capture, detection pipeline and detection stabilizer.      *)
(* Model of src/zdex/camera.py, src/zdex/pipeline.py, src/zdex/detector.py *)
(* and the detection state machine of src/zdex/app.py.                     *)
(*                                                                         *)
(* Times are integers in milliseconds, scores and confidences are integers *)
(* in percent.                                                             *)
(***************************************************************************)
EXTENDS Integers, Sequences, FiniteSets, TLC

(***************************************************************************)
(* Program constants (src/zdex/config.py and literals of the code).        *)
(***************************************************************************)
FRAME_QUEUE_SIZE == 2
DETECTION_QUEUE_SIZE == 2
DETECTION_INTERVAL_MS == 300
DETECTION_CONFIDENCE_THRESHOLD == 25
ANIMAL_CLASS_IDS == 14..23
DETECTION_BUFFER_MAXLEN == 5

\* read from config by app.py (lines 320 and 346) but set nowhere in
\* config.py; the values are those of the specification: 2 seconds, and a
\* confidence of 0.90 in hundredths
AUTO_CAPTURE_THRESHOLD_SECONDS == 2
FREEZE_CONFIDENCE_THRESHOLD == 90

(***************************************************************************)
(* Bounds of the model.                                                    *)
(***************************************************************************)
TickMs == 150
MaxTime == 900
MaxFrames == 3
MaxWorkers == 2
MaxCameraThreads == 2
MaxRaws == 3
MaxCaptures == 2
MaxDwellTime == 4800
MaxFailedReads == 3
MaxSightings == 3

Min(a, b) == IF a < b THEN a ELSE b
Max(a, b) == IF a > b THEN a ELSE b

(***************************************************************************)
(* queue.Queue(maxsize): put_nowait raises Full when the queue already     *)
(* holds maxsize items, get_nowait raises Empty on an empty queue.         *)
(***************************************************************************)
Full(q, maxsize) == Len(q) >= maxsize

\* a put at the head of the queue
PutFirst(q, item) == <<item>> \o q

put_nowait(q, item) == Append(q, item)
get_nowait(q) == Tail(q)

(***************************************************************************)
(* The three steps of _offer, taken by one thread at program counter pc.   *)
(* Each returns the new queue and the next program counter ("done" when    *)
(* _offer has returned).                                                   *)
(***************************************************************************)
\* the first put as it would be on a queue created without maxsize
OfferPut1Unbounded(q, maxsize, item) ==
    [queue |-> put_nowait(q, item), pc |-> "done", put |-> TRUE]

OfferPut1(q, maxsize, item) ==
    IF Full(q, maxsize)
    THEN [queue |-> q, pc |-> "evict", put |-> FALSE]
    ELSE [queue |-> put_nowait(q, item), pc |-> "done", put |-> TRUE]

\* the eviction step taking nothing
OfferEvictNothing(q) == [queue |-> q, pc |-> "put2", put |-> FALSE]

\* the eviction taking the newest item
OfferEvictNewest(q) ==
    IF q = <<>>
    THEN [queue |-> q, pc |-> "put2", put |-> FALSE]
    ELSE [queue |-> SubSeq(q, 1, Len(q) - 1), pc |-> "put2", put |-> FALSE]

OfferEvict(q) ==
    IF q = <<>>
    THEN [queue |-> q, pc |-> "put2", put |-> FALSE]
    ELSE [queue |-> get_nowait(q), pc |-> "put2", put |-> FALSE]

OfferPut2(q, maxsize, item) ==
    IF Full(q, maxsize)
    THEN [queue |-> q, pc |-> "done", put |-> FALSE]
    ELSE [queue |-> put_nowait(q, item), pc |-> "done", put |-> TRUE]

(***************************************************************************)
(* _offer run without interruption by another thread.                      *)
(***************************************************************************)
offer(q, maxsize, item) ==
    LET first == OfferPut1(q, maxsize, item)
    IN  IF first.pc = "done" THEN first.queue
        ELSE OfferPut2(OfferEvict(q).queue, maxsize, item).queue

(***************************************************************************)
(* Species labels (SpeciesLabel of species.py): uuid, species epithet and  *)
(* common name.  Two labels of different genera may share the epithet.     *)
(***************************************************************************)
Labels ==
    { [uuid |-> "u-wolf", species |-> "lupus", common_name |-> "wolf"],
      [uuid |-> "u-cat", species |-> "catus", common_name |-> "cat"],
      [uuid |-> "u-wolffish", species |-> "lupus", common_name |-> "wolffish"] }

(***************************************************************************)
(* detector.py: DetectionResult.primary_label, ClassificationResult.primary *)
(***************************************************************************)
primary(classification) == classification.hypotheses[1]
primary_label(d) == primary(d.classification)

(***************************************************************************)
(* int(c) of a float coordinate, given in half pixels: truncation toward   *)
(* zero.                                                                   *)
(***************************************************************************)
IntTrunc(h) == IF h >= 0 THEN h \div 2 ELSE -((-h) \div 2)

(***************************************************************************)
(* detector.py infer, lines 175-179: integer conversion and clamping of a  *)
(* raw box to the frame, shape = <<height, width, 3>>.                     *)
(***************************************************************************)
\* the clamp against the width and the height instead of the last pixel
ClampBoxToSize(coords, shape) ==
    << Max(0, IntTrunc(coords[1])),
       Max(0, IntTrunc(coords[2])),
       Min(shape[2], IntTrunc(coords[3])),
       Min(shape[1], IntTrunc(coords[4])) >>

ClampBox(coords, shape) ==
    << Max(0, IntTrunc(coords[1])),
       Max(0, IntTrunc(coords[2])),
       Min(shape[2] - 1, IntTrunc(coords[3])),
       Min(shape[1] - 1, IntTrunc(coords[4])) >>

Degenerate(b) == b[3] <= b[1] \/ b[4] <= b[2]

(***************************************************************************)
(* detector.py infer, lines 168-173: the class and confidence filters.     *)
(***************************************************************************)
Accepted(raw) ==
    /\ raw.cls_id \in ANIMAL_CLASS_IDS
    /\ ~(raw.conf < DETECTION_CONFIDENCE_THRESHOLD)

(***************************************************************************)
(* list.sort(key=score, reverse=True): a stable sort, elements of equal    *)
(* score keep their order.                                                 *)
(***************************************************************************)
RECURSIVE InsertByScore(_, _)
InsertByScore(sorted, d) ==
    IF sorted = <<>> THEN <<d>>
    ELSE IF primary_label(Head(sorted)).score >= primary_label(d).score
         THEN <<Head(sorted)>> \o InsertByScore(Tail(sorted), d)
         ELSE <<d>> \o sorted

RECURSIVE SortedFrom(_, _)
SortedFrom(ds, acc) ==
    IF ds = <<>> THEN acc
    ELSE SortedFrom(Tail(ds), InsertByScore(acc, Head(ds)))

\* the list returned in the order of the detector's boxes
KeepDetectorOrder(ds) == ds

SortByScore(ds) == SortedFrom(ds, <<>>)

(***************************************************************************)
(* detector.py infer, lines 165-195: the loop over the raw detections.     *)
(* raw.classify is what _classify does on the crop of this box: it raises  *)
(* or returns the top-K hypotheses.  An exception of _classify is not      *)
(* caught inside infer.                                                    *)
(***************************************************************************)
RECURSIVE InferLoop(_, _, _, _)
InferLoop(raws, shape, timestamp, acc) ==
    IF raws = <<>> THEN [raised |-> FALSE, detections |-> acc]
    ELSE LET raw == Head(raws)
             box == ClampBox(raw.coords, shape)
         IN  IF ~Accepted(raw) \/ Degenerate(box)
             THEN InferLoop(Tail(raws), shape, timestamp, acc)
             ELSE IF raw.classify.raises
                  THEN [raised |-> TRUE, detections |-> <<>>]
                  ELSE InferLoop(Tail(raws), shape, timestamp,
                          Append(acc, [bbox |-> box,
                                       detection_confidence |-> raw.conf,
                                       classification |->
                                           [hypotheses |-> raw.classify.hypotheses],
                                       frame_timestamp |-> timestamp]))

(***************************************************************************)
(* DetectionEngine.infer.  A scene is what the frame makes the detector    *)
(* and the classifier do: predict raises, returns no results, or returns   *)
(* the raw boxes.                                                          *)
(***************************************************************************)
\* infer without the try/except around the detector call
inferUnguarded(scene, shape, timestamp) ==
    IF scene.predict = "raises" THEN [raised |-> TRUE, detections |-> <<>>]
    ELSE IF scene.predict = "empty" THEN [raised |-> FALSE, detections |-> <<>>]
    ELSE LET looped == InferLoop(scene.raws, shape, timestamp, <<>>)
         IN  IF looped.raised THEN looped
             ELSE [raised |-> FALSE, detections |-> SortByScore(looped.detections)]

infer(scene, shape, timestamp) ==
    IF scene.predict = "raises" THEN [raised |-> FALSE, detections |-> <<>>]
    ELSE IF scene.predict = "empty" THEN [raised |-> FALSE, detections |-> <<>>]
    ELSE LET looped == InferLoop(scene.raws, shape, timestamp, <<>>)
         IN  IF looped.raised THEN looped
             ELSE [raised |-> FALSE, detections |-> SortByScore(looped.detections)]

(***************************************************************************)
(* Scenes the pipeline worker meets: what the detector and the classifier  *)
(* do on the frame of the dequeued packet.                                 *)
(***************************************************************************)
Hyp(label, score) == [label |-> label, score |-> score]
Classified(uuid, score) ==
    [raises |-> FALSE,
     hypotheses |-> << Hyp(CHOOSE l \in Labels : l.uuid = uuid, score) >>]
ClassifyRaises == [raises |-> TRUE, hypotheses |-> <<>>]
Raw(cls_id, conf, coords, classify) ==
    [cls_id |-> cls_id, conf |-> conf, coords |-> coords, classify |-> classify]
Scene(predict, raws) == [predict |-> predict, raws |-> raws]
NoScene == Scene("none", <<>>)
NoResult == [raised |-> FALSE, detections |-> <<>>]

PipelineScenes ==
    { Scene("raises", <<>>),
      Scene("boxes", << Raw(16, 80, <<20, 20, 200, 200>>, Classified("u-wolf", 95)) >>),
      Scene("boxes", << Raw(15, 90, <<20, 20, 200, 200>>, Classified("u-cat", 60)),
                        Raw(16, 40, <<300, 40, 600, 400>>, Classified("u-wolf", 95)) >>),
      Scene("boxes", << Raw(15, 90, <<20, 20, 200, 200>>, ClassifyRaises) >>) }

\* the scenes in front of the stabilizer: a wolf at 95 %, a wolffish (of the
\* same species name) at 60 %, a cat at 60 %, nothing
StabilizerScenes ==
    { Scene("boxes", << Raw(16, 80, <<20, 20, 200, 200>>, Classified("u-wolf", 95)) >>),
      Scene("boxes", << Raw(14, 40, <<20, 20, 200, 200>>, Classified("u-wolffish", 60)) >>),
      Scene("boxes", << Raw(15, 90, <<20, 20, 200, 200>>, Classified("u-cat", 60)) >>),
      Scene("empty", <<>>) }

\* a wolf above the freeze threshold, or a cat below it
FreezeScenes ==
    { Scene("boxes", << Raw(16, 80, <<20, 20, 200, 200>>, Classified("u-wolf", 95)) >>),
      Scene("boxes", << Raw(15, 90, <<20, 20, 200, 200>>, Classified("u-cat", 60)) >>) }

\* a wolffish below the freeze threshold, or nothing
DwellScenes ==
    { Scene("boxes", << Raw(14, 40, <<20, 20, 200, 200>>, Classified("u-wolffish", 60)) >>),
      Scene("empty", <<>>) }

\* two species below the freeze threshold, a wolffish and a cat
RivalScenes ==
    { Scene("boxes", << Raw(14, 40, <<20, 20, 200, 200>>, Classified("u-wolffish", 60)) >>),
      Scene("boxes", << Raw(15, 90, <<20, 20, 200, 200>>, Classified("u-cat", 60)) >>) }

\* the two species, or nothing
TrackingScenes == RivalScenes \cup { Scene("empty", <<>>) }

\* the scenes met while the pipeline is started and stopped
ControlScenes ==
    { Scene("boxes", << Raw(16, 80, <<20, 20, 200, 200>>, Classified("u-wolf", 95)) >>),
      Scene("boxes", << Raw(15, 90, <<20, 20, 200, 200>>, ClassifyRaises) >>) }

FrameShapes == { <<720, 960, 3>> }

(***************************************************************************)
(* Scenes for the inference engine: every sequence of at most MaxRaws raw  *)
(* detector outputs out of RawOutputs, and the detector call raising or    *)
(* returning no results.  Box coordinates are floats, given in half        *)
(* pixels, on a frame of 960 x 720.                                        *)
(***************************************************************************)
InFrame == <<20, 20, 200, 200>>
InFrameToo == <<300, 40, 600, 400>>
OutOfFrame == <<-50, -7, 2500, 1900>>     \* clamped to the frame
BesideFrame == <<2000, 40, 2400, 400>>    \* x2 <= x1 once clamped
Sliver == <<20, 20, 21, 200>>             \* x2 = x1 once truncated

RawOutputs ==
    { Raw(0, 80, InFrame, Classified("u-wolf", 95)),        \* not an animal class
      Raw(16, 10, InFrame, Classified("u-wolf", 95)),       \* below the threshold
      Raw(15, 25, InFrame, Classified("u-cat", 60)),        \* at the threshold
      Raw(16, 80, InFrameToo, Classified("u-wolf", 95)),
      Raw(14, 40, InFrame, Classified("u-wolffish", 60)),
      Raw(16, 80, OutOfFrame, Classified("u-wolf", 80)),
      Raw(16, 80, BesideFrame, ClassifyRaises),
      Raw(15, 80, Sliver, ClassifyRaises),
      Raw(15, 90, InFrame, ClassifyRaises) }

SeqsUpTo(S, n) == UNION { [1..k -> S] : k \in 0..n }

InferScenes ==
    { Scene("raises", <<>>), Scene("empty", <<>>) }
        \cup { Scene("boxes", raws) : raws \in SeqsUpTo(RawOutputs, MaxRaws) }

(***************************************************************************)
(* FramePacket (camera.py) and DetectionBatch (pipeline.py).               *)
(***************************************************************************)
FramePacket(shape, timestamp) == [shape |-> shape, timestamp |-> timestamp]
NoPacket == [shape |-> <<0, 0, 0>>, timestamp |-> 0]
DetectionBatch(timestamp, frame_shape, detections) ==
    [timestamp |-> timestamp, frame_shape |-> frame_shape, detections |-> detections]
NoBatch == [timestamp |-> 0, frame_shape |-> <<0, 0, 0>>, detections |-> <<>>]

NothingPublished == [timestamp |-> 0, started |-> 0, outcome |-> "none"]

WorkerIds == 1..MaxWorkers
CameraIds == 1..MaxCameraThreads

VARIABLES
    now,                \* time.time(), in ms
    frame_queue,        \* CameraController.frame_queue
    analysis_queue,     \* CameraController.analysis_queue
    results_queue,      \* DetectionPipeline.results_queue
    camera_running,     \* CameraController._running
    camera_capture,     \* CameraController._capture: the thread that opened it (0: None)
    capture_thread,     \* CameraController._capture_thread (0: None)
    cam,                \* the threads running _capture_loop
    pipeline_running,   \* DetectionPipeline._running
    pipeline_worker,    \* DetectionPipeline._worker (0: None)
    worker,             \* the threads running DetectionPipeline._loop
    last_inference_ts,  \* DetectionPipeline._last_inference_ts
    caller,             \* the thread that calls start() and stop()
    published,          \* history: the last batch put into results_queue
    overlap,            \* history: two workers have been alive together
    app,                \* ZDexApp: its fields and its pending timers
    species_panel,      \* SpeciesInfoPanel: the context last given to update_context
    store,              \* CaptureStore._records: the history per label uuid, or None
    start_report,       \* history: how the last CameraController.start() ended
    auto_captures,      \* history: the auto-captures triggered
    gamification,       \* GAMIFICATION: stats, achievements and what the last
                        \* record_sighting returned
    fetcher,            \* FETCHER: the responses a call meets and what it returns
    ledger              \* history: the items of the buffers and the calls of
                        \* start() and stop(), in the specifications that keep it

queueVars == <<frame_queue, analysis_queue, results_queue>>
cameraVars == <<camera_running, camera_capture, capture_thread, cam>>
pipelineVars == <<pipeline_running, pipeline_worker, worker, last_inference_ts,
                  published, overlap>>
serviceVars == <<gamification, fetcher>>
appVars == <<app, species_panel, store, start_report, auto_captures, serviceVars>>
vars == <<now, queueVars, cameraVars, pipelineVars, caller, appVars, ledger>>

NewThread ==
    [pc |-> "unborn", packet |-> NoPacket, capture |-> "none", shape |-> <<0, 0, 0>>,
     frame_count |-> 0]
NewWorker ==
    [pc |-> "unborn", packet |-> NoPacket, now |-> 0, scene |-> NoScene,
     result |-> NoResult, batch |-> NoBatch, outcome |-> "none"]

Alive(t) == t.pc \notin {"unborn", "exited"}

(***************************************************************************)
(* ZDexApp.__init__, app.py lines 91-112: the fields of the application.   *)
(* None stands for Python's None where the field holds an object, "None"   *)
(* where it holds a string and NoTime where it holds a time.               *)
(***************************************************************************)
None == [none |-> TRUE]
NoTime == 0 - 1
LabelUuids == { l.uuid : l \in Labels }

NewApp ==
    [latest_frame             |-> FALSE,
     current_detection        |-> None,
     current_label_uuid       |-> "None",
     wiki_future              |-> "None",
     frozen_detection         |-> FALSE,
     frozen_context           |-> None,
     current_wikipedia        |-> "None",
     polling_active           |-> FALSE,
     detection_start_time     |-> NoTime,
     last_detected_species    |-> "None",
     auto_capture_triggered   |-> FALSE,
     detection_buffer         |-> <<>>,
     capture_button           |-> "disabled",
     capture_another_button   |-> "disabled",
     poll_due                 |-> NoTime,
     capture_timer            |-> FALSE,
     capture                  |-> None]

NoAutoCaptures == [count |-> 0, since |-> "none"]

(***************************************************************************)
(* CaptureStore (data_store.py): _records maps a label uuid to its         *)
(* SpeciesCaptureHistory, None where the dict has no such key.  Of a       *)
(* CaptureEvent the location is kept.                                      *)
(***************************************************************************)
Locations == {"Valparaiso", "Santiago"}
DefaultLocation == "Valparaiso"

CaptureEvent(location) == [location |-> location]
SpeciesCaptureHistory(label) == [label_uuid |-> label.uuid, captures |-> <<>>]
NoRecords == [u \in LabelUuids |-> None]

\* the properties of SpeciesCaptureHistory, lines 61-75
seen_count(history) == Len(history.captures)
last_location(history) ==
    IF history.captures = <<>> THEN None
    ELSE history.captures[Len(history.captures)].location

\* the captures seen in what get_history returns
SeenCount(history) == IF history = None THEN 0 ELSE seen_count(history)

get_history(records, label) == records[label.uuid]

\* record_capture starting a new history at every call
record_capture_afresh(records, label, location, persisted) ==
    LET history == [SpeciesCaptureHistory(label) EXCEPT
                        !.captures = << CaptureEvent(location) >>]
    IN  [records |-> [records EXCEPT ![label.uuid] = history],
         raised |-> ~persisted,
         returned |-> IF persisted THEN history ELSE None]

\* record_capture, lines 155-182: the history of label.uuid, created when
\* the dict has none, gets one more event; _persist then writes the files
\* and may raise, in which case nothing is returned
record_capture(records, label, location, persisted) ==
    LET found == records[label.uuid]
        history == IF found = None THEN SpeciesCaptureHistory(label) ELSE found
        appended == [history EXCEPT !.captures = Append(@, CaptureEvent(location))]
    IN  [records |-> [records EXCEPT ![label.uuid] = appended],
         raised |-> ~persisted,
         returned |-> IF persisted THEN appended ELSE None]

(***************************************************************************)
(* gamification.py: GamificationSystem.  species_stats maps a species name *)
(* to its SpeciesStats, or to None where the dict has no such key;         *)
(* achievements maps an achievement id to its Achievement; newly_unlocked  *)
(* is the list of ids the last record_sighting returned.                   *)
(***************************************************************************)
\* the targets of the default achievements, lines 132-204
AchievementTargets ==
    [first_capture |-> 1, explorer |-> 10, researcher |-> 25, naturalist |-> 50,
     dedicated |-> 100, master |-> 500, dog_lover |-> 10, cat_lover |-> 10,
     bird_watcher |-> 15, global_explorer |-> 5]
AchievementIds == DOMAIN AchievementTargets

\* the species names and common names record_sighting is called with
SightingNames ==
    { [species |-> l.species, common_name |-> l.common_name] : l \in Labels }
        \cup { [species |-> "familiaris", common_name |-> "dog"],
               [species |-> "carolinensis", common_name |-> "catbird"] }
SightedSpecies == { n.species : n \in SightingNames }
SightingLocations == Locations \cup {"Concepcion", "Arica", "Temuco"}
Confidences == {60, 95}

\* word in common_name.lower(), lines 277-304, for the common names above
WordsOf ==
    [wolf |-> {}, wolffish |-> {}, cat |-> {"cat"}, dog |-> {"dog"},
     catbird |-> {"cat", "bird"}]
NameHas(common_name, word) == word \in WordsOf[common_name]

Achievement(id) ==
    [unlocked |-> FALSE, unlock_date |-> "None", progress |-> 0,
     target |-> AchievementTargets[id]]
is_complete(achievement) == achievement.progress >= achievement.target

SpeciesStats(common_name) ==
    [common_name |-> common_name, total_sightings |-> 0, locations |-> <<>>,
     best_confidence |-> 0]

\* _initialize_achievements, lines 131-215: the defaults, with the unlocked
\* status, the date and the progress of the achievements that were loaded
initialize_achievements(loaded) ==
    [id \in AchievementIds |->
        IF loaded[id] = None THEN Achievement(id)
        ELSE [Achievement(id) EXCEPT !.unlocked = loaded[id].unlocked,
                                     !.unlock_date = loaded[id].unlock_date,
                                     !.progress = loaded[id].progress]]

\* __init__, lines 62-76, where no file exists
NewGamification ==
    [species_stats |-> [s \in SightedSpecies |-> None],
     achievements |-> initialize_achievements([id \in AchievementIds |-> None]),
     total_captures |-> 0,
     newly_unlocked |-> <<>>]

\* _update_achievement_progress reporting every completed achievement
update_achievement_progress_again(achievements, id, progress) ==
    LET achievement == [achievements[id] EXCEPT !.progress = progress]
    IN  IF is_complete(achievement)
        THEN [achievements |-> [achievements EXCEPT
                                    ![id] = [achievement EXCEPT !.unlocked = TRUE,
                                                                !.unlock_date = "now"]],
              unlocked |-> TRUE]
        ELSE [achievements |-> [achievements EXCEPT ![id] = achievement],
              unlocked |-> FALSE]

\* _update_achievement_progress, lines 316-334
\* (unlock_date: "now" stands for datetime.now().isoformat())
update_achievement_progress(achievements, id, progress) ==
    LET was_unlocked == achievements[id].unlocked
        achievement == [achievements[id] EXCEPT !.progress = progress]
    IN  IF is_complete(achievement) /\ ~was_unlocked
        THEN [achievements |-> [achievements EXCEPT
                                    ![id] = [achievement EXCEPT !.unlocked = TRUE,
                                                                !.unlock_date = "now"]],
              unlocked |-> TRUE]
        ELSE [achievements |-> [achievements EXCEPT ![id] = achievement],
              unlocked |-> FALSE]

RECURSIVE SightingsWith(_, _, _)
\* sum(s.total_sightings for s in species_stats.values() if word in s.common_name.lower())
SightingsWith(species_stats, species, word) ==
    IF species = {} THEN 0
    ELSE LET s == CHOOSE x \in species : TRUE
             stats == species_stats[s]
         IN  (IF stats # None /\ NameHas(stats.common_name, word)
              THEN stats.total_sightings ELSE 0)
                 + SightingsWith(species_stats, species \ {s}, word)

\* the keys of species_stats
KnownSpecies(species_stats) == { s \in SightedSpecies : species_stats[s] # None }

\* len(set(loc for stats in species_stats.values() for loc in stats.locations))
UniqueLocations(species_stats) ==
    Cardinality(UNION { { species_stats[s].locations[i] :
                            i \in 1..Len(species_stats[s].locations) } :
                        s \in KnownSpecies(species_stats) })

\* the calls of _update_achievement_progress that _check_achievements makes,
\* in order, lines 262-312
AchievementChecks(species_stats, total_captures, common_name) ==
    LET unique_species == Cardinality(KnownSpecies(species_stats))
        word(id, w) == IF NameHas(common_name, w)
                       THEN << [id |-> id,
                                progress |-> SightingsWith(species_stats, SightedSpecies, w)] >>
                       ELSE << >>
    IN  << [id |-> "first_capture", progress |-> total_captures],
           [id |-> "explorer", progress |-> unique_species],
           [id |-> "researcher", progress |-> unique_species],
           [id |-> "naturalist", progress |-> unique_species],
           [id |-> "dedicated", progress |-> total_captures],
           [id |-> "master", progress |-> total_captures] >>
            \o word("dog_lover", "dog") \o word("cat_lover", "cat")
            \o word("bird_watcher", "bird")
            \o << [id |-> "global_explorer",
                   progress |-> UniqueLocations(species_stats)] >>

RECURSIVE CheckEach(_, _, _)
CheckEach(achievements, checks, newly_unlocked) ==
    IF checks = <<>>
    THEN [achievements |-> achievements, newly_unlocked |-> newly_unlocked]
    ELSE LET updated == update_achievement_progress(achievements, checks[1].id,
                                                    checks[1].progress)
         IN  CheckEach(updated.achievements, Tail(checks),
                       IF updated.unlocked
                       THEN Append(newly_unlocked, checks[1].id)
                       ELSE newly_unlocked)

\* _check_achievements, lines 258-314
check_achievements(g, common_name) ==
    CheckEach(g.achievements,
              AchievementChecks(g.species_stats, g.total_captures, common_name),
              <<>>)

\* record_sighting, lines 217-256
record_sighting(g, species_name, common_name, location, confidence) ==
    LET found == g.species_stats[species_name]
        stats == IF found = None THEN SpeciesStats(common_name) ELSE found
        seen == { stats.locations[i] : i \in 1..Len(stats.locations) }
        counted == [stats EXCEPT
                       !.total_sightings = @ + 1,
                       !.locations = IF location # "" /\ location \notin seen
                                     THEN Append(@, location) ELSE @,
                       !.best_confidence = IF confidence > @ THEN confidence ELSE @]
        recorded == [g EXCEPT !.species_stats[species_name] = counted,
                              !.total_captures = @ + 1]
        checked == check_achievements(recorded, common_name)
    IN  [recorded EXCEPT !.achievements = checked.achievements,
                         !.newly_unlocked = checked.newly_unlocked]

(***************************************************************************)
(* wikipedia_client.py: WikipediaFetcher.  A call meets the responses of   *)
(* Wikipedia and of Wikidata, which are its inputs.  A text is a string,   *)
(* "None" where the code holds None.                                       *)
(***************************************************************************)
\* config.WIKIPEDIA_LANG_PRIORITY
WIKIPEDIA_LANG_PRIORITY == <<"es", "en">>

\* what the pageprops request gives: the request raises; "pages" is a dict
\* keyed by page id, the shape MediaWiki sends unless formatversion 2 is
\* asked for; "pages" is empty; "pages" is a list whose first page has no
\* wikibase_item, or has one
PagepropsOutcomes == {"raises", "keyed", "empty", "no_item", "item"}

\* the terms _extract_wikidata_properties looks up, line 308
PropTerms == {"habitat", "diet", "conservation", "distribution", "endemic"}

\* _extract_wikidata_properties, lines 242-316: found[term] is the text
\* ", ".join(found) of the values found for the term, "None" for no value;
\* props.get(term) of the result, "None" for a missing key
extract_wikidata_properties(pages, sparql_fails, found) ==
    IF pages \in {"raises", "keyed"} THEN [term \in PropTerms |-> "None"]
    ELSE IF pages \in {"empty", "no_item"} THEN [term \in PropTerms |-> "None"]
    ELSE IF sparql_fails THEN [term \in PropTerms |-> "None"]
    ELSE found

NoHabitatDiet == [habitat |-> "None", diet |-> "None"]

\* _extract_habitat_diet, lines 118-187: the fields found in the infobox of
\* the page, (None, None) when the request fails
extract_habitat_diet(infobox) ==
    IF infobox.fails THEN NoHabitatDiet
    ELSE [habitat |-> infobox.habitat, diet |-> infobox.diet]

\* the first language of the priority whose page exists, 0 for none
RECURSIVE FirstExisting(_, _)
FirstExisting(exists, i) ==
    IF i > Len(WIKIPEDIA_LANG_PRIORITY) THEN 0
    ELSE IF exists[WIKIPEDIA_LANG_PRIORITY[i]] THEN i
    ELSE FirstExisting(exists, i + 1)

\* _fetch_candidate, lines 69-87: habitat and diet are set from the
\* Wikidata properties, then both are assigned again from what
\* _extract_habitat_diet returns
HabitatDiet(props, infobox) ==
    LET from_wikidata ==
            [habitat |-> IF props["habitat"] # "None" THEN props["habitat"] ELSE "None",
             diet |-> IF props["diet"] # "None" THEN props["diet"] ELSE "None"]
        parsed == extract_habitat_diet(infobox)
    IN  [from_wikidata EXCEPT !.habitat = parsed.habitat, !.diet = parsed.diet]

\* _fetch_candidate, lines 58-99
fetch_candidate(exists, pages, sparql_fails, found, infobox) ==
    LET first == FirstExisting(exists, 1)
        props == extract_wikidata_properties(pages, sparql_fails, found)
        fields == HabitatDiet(props, infobox)
    IN  IF first = 0 THEN None
        ELSE [language |-> WIKIPEDIA_LANG_PRIORITY[first],
              conservation_status |-> props["conservation"],
              distribution |-> props["distribution"],
              habitat |-> fields.habitat,
              diet |-> fields.diet]

\* the texts the responses hold
WikidataTexts == [habitat |-> "forest", diet |-> "meat", conservation |-> "LC",
                  distribution |-> "Eurasia", endemic |-> "no"]
InfoboxTexts == [habitat |-> "steppe", diet |-> "fish"]

Pending == [pending |-> TRUE]

\* the calls of _fetch_candidate with the responses they meet
CandidateCalls ==
    { [call |-> "_fetch_candidate", exists |-> exists, pages |-> pages,
       sparql_fails |-> sparql_fails, found |-> found, infobox |-> infobox,
       returned |-> Pending] :
        exists \in [{"es", "en"} -> BOOLEAN], pages \in PagepropsOutcomes,
        sparql_fails \in BOOLEAN,
        found \in { [term \in PropTerms |->
                        IF term \in has THEN WikidataTexts[term] ELSE "None"] :
                    has \in SUBSET {"habitat", "diet", "conservation"} },
        infobox \in { [fails |-> fails, habitat |-> habitat, diet |-> diet] :
                        fails \in BOOLEAN,
                        habitat \in {"None", InfoboxTexts.habitat},
                        diet \in {"None", InfoboxTexts.diet} } }

\* the property labels _extract_habitat_diet_wikidata asks for, lines
\* 236-237, in the order tried ("habitat_es" is the Spanish word, written
\* with an accent in the source)
HabitatLabels == <<"habitat", "habitat_es">>
DietLabels == <<"diet", "feeding">>
PropertyLabels == {"habitat", "habitat_es", "diet", "feeding"}

\* a binding of a SPARQL answer, with its valueLabel or without one
Binding(text) == [valueLabel |-> text]
Unlabelled == Binding("None")

\* the answers of the SPARQL endpoint for a property label: the request
\* fails, or it gives a list of bindings
AnswersFor(label) ==
    LET first == Binding("first " \o label)
        second == Binding("second " \o label)
    IN  { [fails |-> TRUE, bindings |-> <<>>] }
            \cup { [fails |-> FALSE, bindings |-> b] :
                       b \in { <<>>, <<Unlabelled>>, <<first>>, <<first, second>>,
                               <<Unlabelled, first>>, <<second, first>> } }

\* query_property reading the last binding of the answer
query_property_last(answer) ==
    IF answer.bindings # <<>>
          /\ answer.bindings[Len(answer.bindings)].valueLabel # "None"
    THEN answer.bindings[Len(answer.bindings)].valueLabel
    ELSE "None"

\* query_property, lines 220-234, once the request has succeeded
query_property(answer) ==
    IF answer.bindings # <<>> /\ answer.bindings[1].valueLabel # "None"
    THEN answer.bindings[1].valueLabel
    ELSE "None"

\* query_property(a) or query_property(b), lines 236-237: the second
\* request is made when the first gave nothing; either may raise
EitherProperty(answers, labels) ==
    IF answers[labels[1]].fails THEN [raised |-> TRUE, value |-> "None"]
    ELSE LET first == query_property(answers[labels[1]])
         IN  IF first # "None" THEN [raised |-> FALSE, value |-> first]
             ELSE IF answers[labels[2]].fails THEN [raised |-> TRUE, value |-> "None"]
             ELSE [raised |-> FALSE, value |-> query_property(answers[labels[2]])]

\* _extract_habitat_diet_wikidata, lines 189-240: pages[0] of a dict keyed
\* by page id raises KeyError; every exception ends in (None, None)
extract_habitat_diet_wikidata(pages, answers) ==
    IF pages \in {"raises", "keyed"} THEN NoHabitatDiet
    ELSE IF pages \in {"empty", "no_item"} THEN NoHabitatDiet
    ELSE LET habitat == EitherProperty(answers, HabitatLabels)
             diet == EitherProperty(answers, DietLabels)
         IN  IF habitat.raised \/ diet.raised THEN NoHabitatDiet
             ELSE [habitat |-> habitat.value, diet |-> diet.value]

\* the calls of _extract_habitat_diet_wikidata with the responses they meet
WikidataCalls ==
    { [call |-> "_extract_habitat_diet_wikidata", pages |-> pages,
       answers |-> answers, returned |-> Pending] :
        pages \in PagepropsOutcomes,
        answers \in { a \in [PropertyLabels -> UNION { AnswersFor(l) : l \in PropertyLabels }] :
                        \A l \in PropertyLabels : a[l] \in AnswersFor(l) } }

\* wikipedia_client.py: what the last call of FETCHER met and returned
NoFetch == [call |-> "none"]

\* a sighting as record_sighting is given it
Sighting(name, location, confidence) ==
    [name |-> name, location |-> location, confidence |-> confidence]
CatName == [species |-> "catus", common_name |-> "cat"]
DogName == [species |-> "familiaris", common_name |-> "dog"]
CatsAt(location, n) == [i \in 1..n |-> Sighting(CatName, location, 60)]
DogsAt(location, n) == [i \in 1..n |-> Sighting(DogName, location, 95)]

RECURSIVE Replayed(_, _)
\* the system after the calls of record_sighting of a history
Replayed(g, history) ==
    IF history = <<>> THEN g
    ELSE IF Len(history) = 1
    THEN record_sighting(g, history[1].name.species, history[1].name.common_name,
                         history[1].location, history[1].confidence)
    ELSE LET half == Len(history) \div 2
         IN  Replayed(Replayed(g, SubSeq(history, 1, half)),
                      SubSeq(history, half + 1, Len(history)))

\* what earlier runs have saved: nothing, eight cats, nine dogs, cats at
\* four locations
SavedHistories ==
    { <<>>, CatsAt("Valparaiso", 8), DogsAt("Santiago", 9),
      CatsAt("Valparaiso", 1) \o CatsAt("Santiago", 1)
          \o CatsAt("Concepcion", 1) \o CatsAt("Arica", 1) }

\* __init__, lines 62-76: _load reads the statistics file and the
\* achievements file, each of which may be missing or unreadable, then
\* _initialize_achievements
Loaded(stats, achievements) ==
    [species_stats |-> stats.species_stats,
     achievements |-> initialize_achievements(achievements.achievements),
     total_captures |-> stats.total_captures,
     newly_unlocked |-> <<>>]
LoadedSystems ==
    LET saved == { Replayed(NewGamification, h) : h \in SavedHistories }
    IN  { Loaded(g, g) : g \in saved }
            \cup { Loaded(g, NewGamification) : g \in saved }
            \cup { Loaded(NewGamification, g) : g \in saved }

\* GAMIFICATION and FETCHER as the module constructs them
ServicesIdle ==
    /\ gamification = NewGamification
    /\ fetcher = NoFetch

(***************************************************************************)
(* The ledger: for each buffer the items handed to _offer, the items taken *)
(* out by _offer itself and the items taken by the consumer, in order;     *)
(* the last call of start() or stop() with what it found; the failed reads *)
(* in a row; how the last Wikipedia future ended; the last call of         *)
(* record_capture with what it returned; and the countdown last given to   *)
(* the camera canvas.  Each is kept in the specifications that name it in  *)
(* ledger.keeps.                                                           *)
(***************************************************************************)
NoLog == [offered |-> <<>>, evicted |-> <<>>, delivered |-> <<>>]
NoCall == [op |-> "none", running |-> FALSE, again |-> FALSE]
NoLookup == [outcome |-> "none", again |-> FALSE]
NoSteady == [key |-> "None", since |-> 0]
NoCapture == [label |-> None, location |-> "None", raised |-> FALSE, returned |-> None]
NoSightings == [calls |-> 0, returned |-> [id \in AchievementIds |-> 0]]
NoLedger ==
    [keeps |-> {}, frame |-> NoLog, analysis |-> NoLog, results |-> NoLog,
     camera_call |-> NoCall, pipeline_call |-> NoCall, failed_reads |-> 0,
     lookup |-> NoLookup, capture |-> NoCapture, countdown |-> None,
     steady |-> NoSteady, consumed |-> <<>>, sightings |-> NoSightings]

Keeping(what) == what \in ledger.keeps

\* a call of record_sighting returned newly_unlocked
LogSighting(log, newly_unlocked) ==
    [calls |-> log.calls + 1,
     returned |-> [id \in AchievementIds |->
                      log.returned[id]
                          + Cardinality({ i \in 1..Len(newly_unlocked) :
                                            newly_unlocked[i] = id })]]

\* a step of _offer at pc took the queue q to step.queue
LogOffer(log, pc, q, step, item) ==
    LET evicts == q # <<>> /\ Len(step.queue) < Len(q) + (IF step.put THEN 1 ELSE 0)
    IN  [log EXCEPT !.offered = IF pc = "put1" THEN Append(@, item) ELSE @,
                    !.evicted = IF evicts THEN Append(@, Head(q)) ELSE @]

\* a call of start() or stop() that found the running flag as given, after
\* the call last
LogCall(last, op, running) ==
    [op |-> op, running |-> running, again |-> last.op = op]

\* capture.read() returned ret: the failed reads in a row, counted up to
\* MaxFailedReads
LogRead(count, ret) == IF ret THEN 0 ELSE Min(count + 1, MaxFailedReads)

\* future.result() ended as outcome; again tells two equal outcomes in a row
\* apart
LogLookup(last, outcome) ==
    [outcome |-> outcome, again |-> IF last.outcome = outcome THEN ~last.again ELSE FALSE]

\* the consumer took the head of q
LogGet(log, q) == [log EXCEPT !.delivered = Append(@, Head(q))]

AppConstructed ==
    /\ ledger = NoLedger
    /\ app = NewApp
    /\ species_panel = None
    /\ store = NoRecords
    /\ start_report = "none"
    /\ auto_captures = NoAutoCaptures
    /\ ServicesIdle

(***************************************************************************)
(* State after construction of CONTROLLER and of the DetectionPipeline.    *)
(* time.time() is far beyond the detection interval.                       *)
(***************************************************************************)
Init ==
    /\ now = DETECTION_INTERVAL_MS
    /\ frame_queue = <<>>
    /\ analysis_queue = <<>>
    /\ results_queue = <<>>
    /\ camera_running = FALSE
    /\ camera_capture = 0
    /\ capture_thread = 0
    /\ cam = [c \in CameraIds |-> NewThread]
    /\ pipeline_running = FALSE
    /\ pipeline_worker = 0
    /\ worker = [w \in WorkerIds |-> NewWorker]
    /\ last_inference_ts = 0
    /\ caller = "ready"
    /\ published = NothingPublished
    /\ overlap = FALSE
    /\ AppConstructed

(***************************************************************************)
(* Passage of time.                                                        *)
(***************************************************************************)
Tick ==
    /\ now + TickMs <= MaxTime
    /\ now' = now + TickMs
    /\ UNCHANGED <<ledger, appVars, queueVars, cameraVars, pipelineVars, caller>>

(***************************************************************************)
(* DetectionPipeline.start, pipeline.py lines 41-49.                       *)
(***************************************************************************)
PipelineStart ==
    /\ caller = "ready"
    /\ IF pipeline_running
       THEN UNCHANGED <<pipeline_running, pipeline_worker, worker, overlap>>
       ELSE \E w \in WorkerIds :
               /\ ~Alive(worker[w])
               /\ \A v \in WorkerIds : v < w => Alive(worker[v])
               /\ pipeline_running' = TRUE
               /\ pipeline_worker' = w
               /\ worker' = [worker EXCEPT ![w] = [NewWorker EXCEPT !.pc = "loop"]]
               /\ overlap' = (overlap \/ \E v \in WorkerIds : Alive(worker[v]))
    /\ ledger' = IF Keeping("calls")
                 THEN [ledger EXCEPT !.pipeline_call = LogCall(@, "start", pipeline_running)]
                 ELSE ledger
    /\ UNCHANGED <<appVars, now, queueVars, cameraVars, last_inference_ts, published, caller>>

\* stop() calling is_alive() on self._worker without testing it for None
PipelineStopUnguarded ==
    /\ caller = "ready"
    /\ pipeline_running' = FALSE
    /\ caller' = IF pipeline_worker = 0 THEN "raised"
                 ELSE IF Alive(worker[pipeline_worker]) THEN "pipeline_join"
                 ELSE "ready"
    /\ ledger' = IF Keeping("calls")
                 THEN [ledger EXCEPT !.pipeline_call = LogCall(@, "stop", pipeline_running)]
                 ELSE ledger
    /\ UNCHANGED <<appVars, now, queueVars, cameraVars, pipeline_worker, worker,
                   last_inference_ts, published, overlap>>

(***************************************************************************)
(* DetectionPipeline.stop, pipeline.py lines 51-56: clear the flag, then   *)
(* join the latest worker for at most 1.5 s.                               *)
(***************************************************************************)
PipelineStop ==
    /\ caller = "ready"
    /\ pipeline_running' = FALSE
    /\ caller' = IF pipeline_worker # 0 /\ Alive(worker[pipeline_worker])
                 THEN "pipeline_join" ELSE "ready"
    /\ ledger' = IF Keeping("calls")
                 THEN [ledger EXCEPT !.pipeline_call = LogCall(@, "stop", pipeline_running)]
                 ELSE ledger
    /\ UNCHANGED <<appVars, now, queueVars, cameraVars, pipeline_worker, worker,
                   last_inference_ts, published, overlap>>

(***************************************************************************)
(* join(timeout=1.5) returns when the worker has ended, or on the timeout  *)
(* while the worker is inside the inference call, whose duration is not    *)
(* bounded.                                                                *)
(***************************************************************************)
PipelineJoinReturn ==
    /\ caller = "pipeline_join"
    /\ \/ ~Alive(worker[pipeline_worker])
       \/ worker[pipeline_worker].pc = "infer"
    /\ caller' = "ready"
    /\ UNCHANGED <<ledger, appVars, now, queueVars, cameraVars, pipelineVars>>

(***************************************************************************)
(* DetectionPipeline._loop, pipeline.py lines 63-131, one action per step  *)
(* of worker thread w.                                                     *)
(***************************************************************************)
SetWorker(w, rec) == worker' = [worker EXCEPT ![w] = rec]

\* the loop as 'while True': the flag is never tested
WorkerGetUntested(w) ==
    /\ worker[w].pc = "loop"
    /\ IF analysis_queue = <<>>
       THEN UNCHANGED <<worker, analysis_queue>>
       ELSE /\ SetWorker(w, [worker[w] EXCEPT !.pc = "clock",
                                              !.packet = Head(analysis_queue)])
            /\ analysis_queue' = get_nowait(analysis_queue)
    /\ ledger' = IF Keeping("buffers") /\ analysis_queue' # analysis_queue
                 THEN [ledger EXCEPT !.analysis = LogGet(@, analysis_queue)]
                 ELSE ledger
    /\ UNCHANGED <<appVars, now, frame_queue, results_queue, cameraVars, pipeline_running,
                   pipeline_worker, last_inference_ts, published, overlap, caller>>

\* lines 63-67: while self._running.is_set(): take a packet from
\* analysis_queue; get(timeout=0.5) on an empty queue ends in queue.Empty and
\* the loop goes round
WorkerGet(w) ==
    /\ worker[w].pc = "loop"
    /\ IF ~pipeline_running
       THEN /\ SetWorker(w, [worker[w] EXCEPT !.pc = "exited"])
            /\ UNCHANGED analysis_queue
       ELSE IF analysis_queue = <<>>
       THEN UNCHANGED <<worker, analysis_queue>>
       ELSE /\ SetWorker(w, [worker[w] EXCEPT !.pc = "clock",
                                              !.packet = Head(analysis_queue)])
            /\ analysis_queue' = get_nowait(analysis_queue)
    /\ ledger' = IF Keeping("buffers") /\ analysis_queue' # analysis_queue
                 THEN [ledger EXCEPT !.analysis = LogGet(@, analysis_queue)]
                 ELSE ledger
    /\ UNCHANGED <<appVars, now, frame_queue, results_queue, cameraVars, pipeline_running,
                   pipeline_worker, last_inference_ts, published, overlap, caller>>

\* line 69: now = time.time()
WorkerClock(w) ==
    /\ worker[w].pc = "clock"
    /\ SetWorker(w, [worker[w] EXCEPT !.pc = "rate", !.now = now])
    /\ UNCHANGED <<ledger, appVars, now, queueVars, cameraVars, pipeline_running, pipeline_worker,
                   last_inference_ts, published, overlap, caller>>

\* lines 70-71: the rate limit; a packet that comes too early is dropped
\* the rate limit with the interval taken in seconds against a clock in ms
RateLimitedSeconds(t, last) == t - last < DETECTION_INTERVAL_MS \div 1000

RateLimited(t, last) == t - last < DETECTION_INTERVAL_MS

WorkerRateLimit(w) ==
    /\ worker[w].pc = "rate"
    /\ IF RateLimited(worker[w].now, last_inference_ts)
       THEN SetWorker(w, [worker[w] EXCEPT !.pc = "loop", !.packet = NoPacket, !.now = 0])
       ELSE SetWorker(w, [worker[w] EXCEPT !.pc = "stamp"])
    /\ UNCHANGED <<ledger, appVars, now, queueVars, cameraVars, pipeline_running, pipeline_worker,
                   last_inference_ts, published, overlap, caller>>

\* the call entered with _last_inference_ts left as it was
WorkerStampLater(w) ==
    /\ worker[w].pc = "stamp"
    /\ SetWorker(w, [worker[w] EXCEPT !.pc = "infer"])
    /\ UNCHANGED <<ledger, appVars, now, queueVars, cameraVars, pipeline_running, pipeline_worker,
                   last_inference_ts, published, overlap, caller>>

\* line 73: self._last_inference_ts = now
WorkerStamp(w) ==
    /\ worker[w].pc = "stamp"
    /\ last_inference_ts' = worker[w].now
    /\ SetWorker(w, [worker[w] EXCEPT !.pc = "infer"])
    /\ UNCHANGED <<ledger, appVars, now, queueVars, cameraVars, pipeline_running, pipeline_worker,
                   published, overlap, caller>>

\* lines 75-128: the inference and what follows it up to the batch.
\* infer may raise; METRICS.log_latency_sample and log_detection_event write
\* a file and may raise; every exception ends in the except clause, which
\* builds an empty batch of the same packet.
\* the except clause stamping its batch with nothing of the packet
InferenceBatchUnstamped(packet, r, logged) ==
    IF r.raised \/ ~logged
    THEN DetectionBatch(0, <<0, 0, 0>>, <<>>)
    ELSE DetectionBatch(packet.timestamp, packet.shape, r.detections)

\* r is what engine.infer(packet.frame, packet.timestamp) did
InferenceBatch(packet, r, logged) ==
    IF r.raised \/ ~logged
    THEN DetectionBatch(packet.timestamp, packet.shape, <<>>)
    ELSE DetectionBatch(packet.timestamp, packet.shape, r.detections)

\* how the try block ended: infer raised, the logging raised, or neither
InferenceOutcome(r, logged) ==
    IF r.raised THEN "raised"
    ELSE IF ~logged THEN "log_failed"
    ELSE "returned"

\* the loop without its except clause: an exception ends the thread
WorkerInferOnDies(w, scenes) ==
    /\ worker[w].pc = "infer"
    /\ \E scene \in scenes, logged \in BOOLEAN :
          LET r == infer(scene, worker[w].packet.shape, worker[w].packet.timestamp)
          IN  SetWorker(w, [worker[w] EXCEPT
                               !.pc = IF r.raised \/ ~logged THEN "exited" ELSE "put1",
                               !.scene = scene,
                               !.result = r,
                               !.batch = InferenceBatch(worker[w].packet, r, logged),
                               !.outcome = InferenceOutcome(r, logged)])
    /\ UNCHANGED <<ledger, appVars, now, queueVars, cameraVars, pipeline_running, pipeline_worker,
                   last_inference_ts, published, overlap, caller>>

\* the frame of the packet shows one of scenes
WorkerInferOn(w, scenes) ==
    /\ worker[w].pc = "infer"
    /\ \E scene \in scenes, logged \in BOOLEAN :
          LET r == infer(scene, worker[w].packet.shape, worker[w].packet.timestamp)
          IN  SetWorker(w, [worker[w] EXCEPT
                               !.pc = "put1",
                               !.scene = scene,
                               !.result = r,
                               !.batch = InferenceBatch(worker[w].packet, r, logged),
                               !.outcome = InferenceOutcome(r, logged)])
    /\ UNCHANGED <<ledger, appVars, now, queueVars, cameraVars, pipeline_running, pipeline_worker,
                   last_inference_ts, published, overlap, caller>>

WorkerInfer(w) == WorkerInferOn(w, PipelineScenes)

\* history of the batches that entered results_queue
Publish(w) ==
    [timestamp |-> worker[w].batch.timestamp, started |-> worker[w].now,
     outcome |-> worker[w].outcome]

WorkerAfterOffer(w, step) ==
    /\ results_queue' = step.queue
    /\ published' = IF step.put THEN Publish(w) ELSE published
    /\ IF step.pc = "done"
       THEN SetWorker(w, [NewWorker EXCEPT !.pc = "loop"])
       ELSE SetWorker(w, [worker[w] EXCEPT !.pc = step.pc])
    /\ ledger' = IF Keeping("buffers")
                 THEN [ledger EXCEPT !.results = LogOffer(@, worker[w].pc, results_queue,
                                                          step, worker[w].batch)]
                 ELSE ledger
    /\ UNCHANGED <<appVars, now, frame_queue, analysis_queue, cameraVars, pipeline_running,
                   pipeline_worker, last_inference_ts, overlap, caller>>

\* lines 119/129 and 133-144: self._offer(batch)
WorkerOfferPut1(w) ==
    /\ worker[w].pc = "put1"
    /\ WorkerAfterOffer(w, OfferPut1(results_queue, DETECTION_QUEUE_SIZE, worker[w].batch))

WorkerOfferEvict(w) ==
    /\ worker[w].pc = "evict"
    /\ WorkerAfterOffer(w, OfferEvict(results_queue))

WorkerOfferPut2(w) ==
    /\ worker[w].pc = "put2"
    /\ WorkerAfterOffer(w, OfferPut2(results_queue, DETECTION_QUEUE_SIZE, worker[w].batch))

\* self._offer(batch) without interruption
WorkerOffer(w) ==
    /\ worker[w].pc = "put1"
    /\ LET q == offer(results_queue, DETECTION_QUEUE_SIZE, worker[w].batch)
       IN  WorkerAfterOffer(w, [queue |-> q, pc |-> "done", put |-> TRUE])

(***************************************************************************)
(* The consumers of the application: app.py _poll_frames line 253 and      *)
(* _poll_detections line 268 take one item with get_nowait.                *)
(***************************************************************************)
PollFramesGet ==
    /\ frame_queue # <<>>
    /\ frame_queue' = get_nowait(frame_queue)
    /\ ledger' = IF Keeping("buffers") THEN [ledger EXCEPT !.frame = LogGet(@, frame_queue)]
                 ELSE ledger
    /\ UNCHANGED <<appVars, now, analysis_queue, results_queue, cameraVars, pipelineVars, caller>>

PollDetectionsGet ==
    /\ results_queue # <<>>
    /\ results_queue' = get_nowait(results_queue)
    /\ ledger' = IF Keeping("buffers")
                 THEN [ledger EXCEPT !.results = LogGet(@, results_queue)]
                 ELSE ledger
    /\ UNCHANGED <<appVars, now, frame_queue, analysis_queue, cameraVars, pipelineVars, caller>>

\* start() without the test of the running flag
CameraStartAgain ==
    /\ caller = "ready"
    /\ \E c \in CameraIds :
          /\ ~Alive(cam[c])
          /\ \A v \in CameraIds : v < c => Alive(cam[v])
          /\ camera_running' = TRUE
          /\ capture_thread' = c
          /\ cam' = [cam EXCEPT ![c] = [NewThread EXCEPT !.pc = "open"]]
    /\ start_report' = "returned"
    /\ ledger' = IF Keeping("calls")
                 THEN [ledger EXCEPT !.camera_call = LogCall(@, "start", camera_running)]
                 ELSE ledger
    /\ UNCHANGED <<app, species_panel, store, auto_captures, now, queueVars,
                   camera_capture, pipelineVars, caller, serviceVars>>

(***************************************************************************)
(* CameraController.start, camera.py lines 37-45.                          *)
(***************************************************************************)
CameraStart ==
    /\ caller = "ready"
    /\ IF camera_running
       THEN UNCHANGED <<camera_running, capture_thread, cam>>
       ELSE \E c \in CameraIds :
               /\ ~Alive(cam[c])
               /\ \A v \in CameraIds : v < c => Alive(cam[v])
               /\ camera_running' = TRUE
               /\ capture_thread' = c
               /\ cam' = [cam EXCEPT ![c] = [NewThread EXCEPT !.pc = "open"]]
    /\ start_report' = "returned"
    /\ ledger' = IF Keeping("calls")
                 THEN [ledger EXCEPT !.camera_call = LogCall(@, "start", camera_running)]
                 ELSE ledger
    /\ UNCHANGED <<app, species_panel, store, auto_captures, now, queueVars,
                   camera_capture, pipelineVars, caller, serviceVars>>

(***************************************************************************)
(* CameraController.stop, camera.py lines 47-54: clear the flag, join the  *)
(* capture thread for at most 1.5 s, release the device.                   *)
(***************************************************************************)
CameraStop ==
    /\ caller = "ready"
    /\ camera_running' = FALSE
    /\ caller' = IF capture_thread # 0 /\ Alive(cam[capture_thread])
                 THEN "camera_join" ELSE "camera_release"
    /\ ledger' = IF Keeping("calls")
                 THEN [ledger EXCEPT !.camera_call = LogCall(@, "stop", camera_running)]
                 ELSE ledger
    /\ UNCHANGED <<appVars, now, queueVars, camera_capture, capture_thread, cam, pipelineVars>>

\* join(timeout=1.5): the thread has ended, or the timeout passes while the
\* thread is inside a device call (open or read) of unbounded duration
CameraJoinReturn ==
    /\ caller = "camera_join"
    /\ \/ ~Alive(cam[capture_thread])
       \/ cam[capture_thread].pc \in {"open", "read"}
    /\ caller' = "camera_release"
    /\ UNCHANGED <<ledger, appVars, now, queueVars, cameraVars, pipelineVars>>

\* lines 51-54: with self._lock: release self._capture and forget it
CameraRelease ==
    /\ caller = "camera_release"
    /\ IF camera_capture # 0
       THEN /\ cam' = [cam EXCEPT ![camera_capture].capture = "released"]
            /\ camera_capture' = 0
       ELSE UNCHANGED <<cam, camera_capture>>
    /\ caller' = "ready"
    /\ UNCHANGED <<ledger, appVars, now, queueVars, camera_running, capture_thread, pipelineVars>>

(***************************************************************************)
(* CameraController._capture_loop, camera.py lines 56-85, one action per   *)
(* step of capture thread c.                                               *)
(***************************************************************************)
\* lines 58-63: open the device under the lock and publish the handle
CamOpen(c) ==
    /\ cam[c].pc = "open"
    /\ \E opened \in BOOLEAN, shape \in FrameShapes :
          cam' = [cam EXCEPT ![c].pc = "isopened",
                             ![c].capture = IF opened THEN "opened" ELSE "failed",
                             ![c].shape = IF opened THEN shape ELSE <<0, 0, 0>>]
    /\ camera_capture' = c
    /\ UNCHANGED <<ledger, appVars, now, queueVars, camera_running, capture_thread, pipelineVars, caller>>

\* the return on a failed open leaving the running flag set
CamIsOpenedStaysRunning(c) ==
    /\ cam[c].pc = "isopened"
    /\ IF cam[c].capture = "opened"
       THEN cam' = [cam EXCEPT ![c].pc = "loop"]
       ELSE cam' = [cam EXCEPT ![c].pc = "exited"]
    /\ UNCHANGED <<ledger, appVars, now, queueVars, camera_running, camera_capture,
                   capture_thread, pipelineVars, caller>>

\* lines 64-67: if not capture.isOpened(): clear the flag and return
CamIsOpened(c) ==
    /\ cam[c].pc = "isopened"
    /\ IF cam[c].capture = "opened"
       THEN /\ cam' = [cam EXCEPT ![c].pc = "loop"]
            /\ UNCHANGED camera_running
       ELSE /\ cam' = [cam EXCEPT ![c].pc = "exited"]
            /\ camera_running' = FALSE
    /\ UNCHANGED <<ledger, appVars, now, queueVars, camera_capture, capture_thread, pipelineVars, caller>>

\* line 70: while self._running.is_set()
CamLoop(c) ==
    /\ cam[c].pc = "loop"
    /\ cam' = [cam EXCEPT ![c].pc = IF camera_running THEN "read" ELSE "release"]
    /\ UNCHANGED <<ledger, appVars, now, queueVars, camera_running, camera_capture, capture_thread,
                   pipelineVars, caller>>

\* lines 71-80: read a frame; a failed read sleeps and retries, a frame is
\* stamped with time.time().  A released device delivers no frame.
CamRead(c) ==
    /\ cam[c].pc = "read"
    /\ \E ret \in BOOLEAN :
          /\ ret => cam[c].capture = "opened" /\ cam[c].frame_count < MaxFrames
          /\ IF ret
             THEN cam' = [cam EXCEPT ![c].pc = "f_put1",
                                     ![c].frame_count = @ + 1,
                                     ![c].packet = FramePacket(cam[c].shape, now)]
             ELSE cam' = [cam EXCEPT ![c].pc = "loop"]
          /\ ledger' = IF Keeping("reads")
                       THEN [ledger EXCEPT !.failed_reads = LogRead(@, ret)]
                       ELSE ledger
    /\ UNCHANGED <<appVars, now, queueVars, camera_running, camera_capture, capture_thread,
                   pipelineVars, caller>>

\* line 81: self._offer(self.frame_queue, packet)
CamAfterOfferFrame(c, step) ==
    /\ frame_queue' = step.queue
    /\ cam' = [cam EXCEPT ![c].pc = IF step.pc = "done" THEN "a_put1"
                                    ELSE "f_" \o step.pc]
    /\ ledger' = IF Keeping("buffers")
                 THEN [ledger EXCEPT !.frame =
                          LogOffer(@, IF cam[c].pc = "f_put1" THEN "put1" ELSE "later",
                                   frame_queue, step, cam[c].packet)]
                 ELSE ledger
    /\ UNCHANGED <<appVars, now, analysis_queue, results_queue, camera_running, camera_capture,
                   capture_thread, pipelineVars, caller>>

CamOfferFramePut1(c) ==
    /\ cam[c].pc = "f_put1"
    /\ CamAfterOfferFrame(c, OfferPut1(frame_queue, FRAME_QUEUE_SIZE, cam[c].packet))

CamOfferFrameEvict(c) ==
    /\ cam[c].pc = "f_evict"
    /\ CamAfterOfferFrame(c, OfferEvict(frame_queue))

CamOfferFramePut2(c) ==
    /\ cam[c].pc = "f_put2"
    /\ CamAfterOfferFrame(c, OfferPut2(frame_queue, FRAME_QUEUE_SIZE, cam[c].packet))

\* line 82: self._offer(self.analysis_queue, packet)
CamAfterOfferAnalysis(c, step) ==
    /\ analysis_queue' = step.queue
    /\ cam' = [cam EXCEPT ![c].pc = IF step.pc = "done" THEN "loop"
                                    ELSE "a_" \o step.pc,
                          ![c].packet = IF step.pc = "done" THEN NoPacket
                                        ELSE cam[c].packet]
    /\ ledger' = IF Keeping("buffers")
                 THEN [ledger EXCEPT !.analysis =
                          LogOffer(@, IF cam[c].pc = "a_put1" THEN "put1" ELSE "later",
                                   analysis_queue, step, cam[c].packet)]
                 ELSE ledger
    /\ UNCHANGED <<appVars, now, frame_queue, results_queue, camera_running, camera_capture,
                   capture_thread, pipelineVars, caller>>

CamOfferAnalysisPut1(c) ==
    /\ cam[c].pc = "a_put1"
    /\ CamAfterOfferAnalysis(c, OfferPut1(analysis_queue, DETECTION_QUEUE_SIZE, cam[c].packet))

CamOfferAnalysisEvict(c) ==
    /\ cam[c].pc = "a_evict"
    /\ CamAfterOfferAnalysis(c, OfferEvict(analysis_queue))

CamOfferAnalysisPut2(c) ==
    /\ cam[c].pc = "a_put2"
    /\ CamAfterOfferAnalysis(c, OfferPut2(analysis_queue, DETECTION_QUEUE_SIZE, cam[c].packet))

\* the loop left on a failed read
CamReadOffersGivesUp(c) ==
    /\ cam[c].pc = "read"
    /\ \E ret \in BOOLEAN :
          /\ ret => cam[c].capture = "opened" /\ cam[c].frame_count < MaxFrames
          /\ IF ret
             THEN /\ cam' = [cam EXCEPT ![c].pc = "loop", ![c].frame_count = @ + 1]
                  /\ frame_queue' = offer(frame_queue, FRAME_QUEUE_SIZE,
                                          FramePacket(cam[c].shape, now))
                  /\ analysis_queue' = offer(analysis_queue, DETECTION_QUEUE_SIZE,
                                             FramePacket(cam[c].shape, now))
             ELSE /\ cam' = [cam EXCEPT ![c].pc = "release"]
                  /\ UNCHANGED <<frame_queue, analysis_queue>>
          /\ ledger' = IF Keeping("reads")
                       THEN [ledger EXCEPT !.failed_reads = LogRead(@, ret)]
                       ELSE ledger
    /\ UNCHANGED <<appVars, now, results_queue, camera_running, camera_capture, capture_thread,
                   pipelineVars, caller>>

\* lines 71-82 without interruption: a read and the two offers of its packet
CamReadOffers(c) ==
    /\ cam[c].pc = "read"
    /\ \E ret \in BOOLEAN :
          /\ ret => cam[c].capture = "opened" /\ cam[c].frame_count < MaxFrames
          /\ IF ret
             THEN /\ cam' = [cam EXCEPT ![c].pc = "loop", ![c].frame_count = @ + 1]
                  /\ frame_queue' = offer(frame_queue, FRAME_QUEUE_SIZE,
                                          FramePacket(cam[c].shape, now))
                  /\ analysis_queue' = offer(analysis_queue, DETECTION_QUEUE_SIZE,
                                             FramePacket(cam[c].shape, now))
             ELSE /\ cam' = [cam EXCEPT ![c].pc = "loop"]
                  /\ UNCHANGED <<frame_queue, analysis_queue>>
          /\ ledger' = IF Keeping("reads")
                       THEN [ledger EXCEPT !.failed_reads = LogRead(@, ret)]
                       ELSE ledger
    /\ UNCHANGED <<appVars, now, results_queue, camera_running, camera_capture, capture_thread,
                   pipelineVars, caller>>

\* lines 83-85: capture.release()
CamRelease(c) ==
    /\ cam[c].pc = "release"
    /\ cam' = [cam EXCEPT ![c].pc = "exited", ![c].capture = "released"]
    /\ UNCHANGED <<ledger, appVars, now, queueVars, camera_running, camera_capture, capture_thread,
                   pipelineVars, caller>>

\* pipeline.py line 65 seen from the camera: the worker takes a packet
AnalysisGet ==
    /\ analysis_queue # <<>>
    /\ analysis_queue' = get_nowait(analysis_queue)
    /\ ledger' = IF Keeping("buffers")
                 THEN [ledger EXCEPT !.analysis = LogGet(@, analysis_queue)]
                 ELSE ledger
    /\ UNCHANGED <<appVars, now, frame_queue, results_queue, cameraVars, pipelineVars, caller>>

\* camera.py lines 79-82 seen from the pipeline: the capture thread has
\* offered the packet of a new frame to analysis_queue
FrameArrives ==
    /\ camera_running
    /\ cam[1].frame_count < MaxFrames
    /\ cam' = [cam EXCEPT ![1].frame_count = @ + 1]
    /\ analysis_queue' = offer(analysis_queue, DETECTION_QUEUE_SIZE,
                               FramePacket(cam[1].shape, now))
    /\ UNCHANGED <<ledger, appVars, now, frame_queue, results_queue, camera_running, camera_capture,
                   capture_thread, pipelineVars, caller>>

(***************************************************************************)
(* The detection stabilizer of ZDexApp (app.py): smoothing window, dwell   *)
(* tracking, freeze latch, and the contexts given to the species panel.    *)
(***************************************************************************)
SpeciesDisplayContext(detection, wikipedia, history, locked) ==
    [detection |-> detection, wikipedia |-> wikipedia, history |-> history,
     locked |-> locked]

\* a deque that refuses the new entry once it is full
DequeAppendKeepingOldest(buffer, entry) ==
    IF Len(buffer) >= DETECTION_BUFFER_MAXLEN
    THEN buffer
    ELSE Append(buffer, entry)

\* collections.deque(maxlen=5).append
DequeAppend(buffer, entry) ==
    IF Len(buffer) >= DETECTION_BUFFER_MAXLEN
    THEN Append(Tail(buffer), entry)
    ELSE Append(buffer, entry)

\* d.primary_label.label.species
SpeciesKey(d) == primary_label(d).label.species

ValidDetections(buffer) == SelectSeq(buffer, LAMBDA d : d # None)

CountOf(valid, key) ==
    Cardinality({ i \in 1..Len(valid) : SpeciesKey(valid[i]) = key })

FirstIndexOf(valid, key) ==
    CHOOSE i \in 1..Len(valid) :
        /\ SpeciesKey(valid[i]) = key
        /\ \A j \in 1..(i - 1) : SpeciesKey(valid[j]) # key

\* the highest count; among equal counts the key of the newest entry
MostCommonSpeciesNewest(valid) ==
    LET keys == { SpeciesKey(valid[i]) : i \in 1..Len(valid) }
        best == { k \in keys : \A other \in keys : CountOf(valid, k) >= CountOf(valid, other) }
        LastIndexOf(key) == CHOOSE i \in 1..Len(valid) :
                               /\ SpeciesKey(valid[i]) = key
                               /\ \A j \in (i + 1)..Len(valid) : SpeciesKey(valid[j]) # key
    IN  CHOOSE k \in best : \A other \in best : LastIndexOf(k) >= LastIndexOf(other)

\* Counter(...).most_common(1)[0][0]: the highest count; among equal counts
\* the key that was inserted first
MostCommonSpecies(valid) ==
    LET keys == { SpeciesKey(valid[i]) : i \in 1..Len(valid) }
        best == { k \in keys : \A other \in keys : CountOf(valid, k) >= CountOf(valid, other) }
    IN  CHOOSE k \in best :
            \A other \in best : FirstIndexOf(valid, k) <= FirstIndexOf(valid, other)

\* for d in reversed(valid_detections): the first d of that species
LatestOf(valid, key) ==
    valid[CHOOSE i \in 1..Len(valid) :
            /\ SpeciesKey(valid[i]) = key
            /\ \A j \in (i + 1)..Len(valid) : SpeciesKey(valid[j]) # key]

\* the smoothed detection as the newest valid entry of the window
MostRecentValid(buffer) ==
    LET valid == ValidDetections(buffer)
    IN  IF valid = <<>> THEN None ELSE valid[Len(valid)]

\* app.py lines 279-293
Smoothed(buffer) ==
    LET valid == ValidDetections(buffer)
    IN  IF valid = <<>> THEN None ELSE LatestOf(valid, MostCommonSpecies(valid))

\* app.py lines 266-297: the loop that empties results_queue
RECURSIVE DrainBatches(_, _)
DrainBatches(a, queue) ==
    IF queue = <<>> THEN a
    ELSE LET batch == Head(queue)
             entry == IF batch.detections # <<>> THEN batch.detections[1] ELSE None
             buffer == DequeAppend(a.detection_buffer, entry)
         IN  DrainBatches([a EXCEPT !.detection_buffer = buffer,
                                    !.current_detection = Smoothed(buffer)],
                          Tail(queue))

\* the species key of a smoothed detection, "None" when there is none
KeyOf(d) == IF d = None THEN "None" ELSE SpeciesKey(d)

\* app.py lines 266-297 at time t: the species key _current_detection holds
\* after the last batch, and since when it has held it after every batch
RECURSIVE SteadyThrough(_, _, _, _)
SteadyThrough(buffer, queue, t, steady) ==
    IF queue = <<>> THEN steady
    ELSE LET batch == Head(queue)
             entry == IF batch.detections # <<>> THEN batch.detections[1] ELSE None
             appended == DequeAppend(buffer, entry)
             key == KeyOf(Smoothed(appended))
         IN  SteadyThrough(appended, Tail(queue), t,
                           IF key = steady.key THEN steady
                           ELSE [key |-> key, since |-> t])

\* the trigger without the auto_capture_triggered flag
AutoCaptureDueUnlatched(elapsed, triggered) ==
    elapsed >= AUTO_CAPTURE_THRESHOLD_SECONDS * 1000

\* app.py line 320
AutoCaptureDue(elapsed, triggered) ==
    elapsed >= AUTO_CAPTURE_THRESHOLD_SECONDS * 1000 /\ ~triggered

\* app.py lines 302-336: what set_auto_capture_countdown has last been given
\* once the dwell step is over, in ms; shown is what it had been given before
CountdownAfterPoll(a, t, shown) ==
    IF a.current_detection # None /\ ~a.frozen_detection
    THEN IF a.last_detected_species = SpeciesKey(a.current_detection)
         THEN IF a.detection_start_time = NoTime THEN shown
              ELSE Max(0, AUTO_CAPTURE_THRESHOLD_SECONDS * 1000
                              - (t - a.detection_start_time))
         ELSE None
    ELSE IF a.frozen_detection \/ a.last_detected_species # "None" THEN None
         ELSE shown

\* the dwell step is at its trigger: lines 305-320 all pass
DwellFires(a, t) ==
    /\ a.current_detection # None
    /\ ~a.frozen_detection
    /\ a.last_detected_species = SpeciesKey(a.current_detection)
    /\ a.detection_start_time # NoTime
    /\ AutoCaptureDue(t - a.detection_start_time, a.auto_capture_triggered)

\* the dwell step keeping its dwell start when the species changes
DwellStepCarried(a, t) ==
    IF a.current_detection # None /\ ~a.frozen_detection
    THEN IF a.last_detected_species = SpeciesKey(a.current_detection)
         THEN IF a.detection_start_time = NoTime
              THEN [a EXCEPT !.detection_start_time = t]
              ELSE IF DwellFires(a, t)
                   THEN [a EXCEPT !.auto_capture_triggered = TRUE,
                                  !.capture_timer = TRUE]
                   ELSE a
         ELSE [a EXCEPT !.last_detected_species = SpeciesKey(a.current_detection),
                        !.detection_start_time = IF @ = NoTime THEN t ELSE @,
                        !.auto_capture_triggered = FALSE]
    ELSE IF a.last_detected_species # "None"
         THEN [a EXCEPT !.last_detected_species = "None",
                        !.detection_start_time = NoTime,
                        !.auto_capture_triggered = FALSE]
         ELSE a

\* the dwell step without its tests of the latch
DwellStepFrozen(a, t) ==
    IF a.current_detection # None
    THEN IF a.last_detected_species = SpeciesKey(a.current_detection)
         THEN IF a.detection_start_time = NoTime
              THEN [a EXCEPT !.detection_start_time = t]
              ELSE IF /\ AutoCaptureDue(t - a.detection_start_time, a.auto_capture_triggered)
                   THEN [a EXCEPT !.auto_capture_triggered = TRUE,
                                  !.capture_timer = TRUE]
                   ELSE a
         ELSE [a EXCEPT !.last_detected_species = SpeciesKey(a.current_detection),
                        !.detection_start_time = t,
                        !.auto_capture_triggered = FALSE]
    ELSE IF a.last_detected_species # "None"
         THEN [a EXCEPT !.last_detected_species = "None",
                        !.detection_start_time = NoTime,
                        !.auto_capture_triggered = FALSE]
         ELSE a

\* app.py lines 299-336: dwell tracking and auto-capture at time t
DwellStep(a, t) ==
    IF a.current_detection # None /\ ~a.frozen_detection
    THEN IF a.last_detected_species = SpeciesKey(a.current_detection)
         THEN IF a.detection_start_time = NoTime
              THEN [a EXCEPT !.detection_start_time = t]
              ELSE IF DwellFires(a, t)
                   THEN [a EXCEPT !.auto_capture_triggered = TRUE,
                                  !.capture_timer = TRUE]
                   ELSE a
         ELSE [a EXCEPT !.last_detected_species = SpeciesKey(a.current_detection),
                        !.detection_start_time = t,
                        !.auto_capture_triggered = FALSE]
    ELSE IF a.last_detected_species # "None"
         THEN [a EXCEPT !.last_detected_species = "None",
                        !.detection_start_time = NoTime,
                        !.auto_capture_triggered = FALSE]
         ELSE a

\* the latch taking a new snapshot whether or not it is active
FreezeStepAgain(a, st) ==
    IF /\ a.current_detection # None
       /\ primary_label(a.current_detection).score >= FREEZE_CONFIDENCE_THRESHOLD
    THEN [a EXCEPT !.frozen_context =
                       SpeciesDisplayContext(
                           a.current_detection, a.current_wikipedia,
                           get_history(st, primary_label(a.current_detection).label), TRUE),
                   !.frozen_detection = TRUE,
                   !.capture_another_button = "normal"]
    ELSE a

\* the latch set on the confidence of the detector instead of the score of
\* the classifier
FreezeStepByConfidence(a, st) ==
    IF /\ a.current_detection # None
       /\ ~a.frozen_detection
       /\ a.current_detection.detection_confidence >= FREEZE_CONFIDENCE_THRESHOLD
    THEN [a EXCEPT !.frozen_context =
                       SpeciesDisplayContext(
                           a.current_detection, a.current_wikipedia,
                           get_history(st, primary_label(a.current_detection).label), TRUE),
                   !.frozen_detection = TRUE,
                   !.capture_another_button = "normal"]
    ELSE a

\* app.py lines 338-376: the freeze latch; st is the capture store
FreezeStep(a, st) ==
    IF /\ a.current_detection # None
       /\ ~a.frozen_detection
       /\ primary_label(a.current_detection).score >= FREEZE_CONFIDENCE_THRESHOLD
    THEN [a EXCEPT !.frozen_context =
                       SpeciesDisplayContext(
                           a.current_detection, a.current_wikipedia,
                           get_history(st, primary_label(a.current_detection).label), TRUE),
                   !.frozen_detection = TRUE,
                   !.capture_another_button = "normal"]
    ELSE a

\* app.py lines 385-411: _handle_detection_update, with the Wikipedia fetch
\* it submits when the label has changed; the context it reports
HandleDetectionUpdate(a, st) ==
    LET detection == a.current_detection
        label == primary_label(detection).label
        uuid == label.uuid
        changed == detection # None /\ uuid # a.current_label_uuid
        updated ==
            [a EXCEPT !.capture_button = IF detection # None THEN "normal" ELSE "disabled",
                      !.current_label_uuid = IF changed THEN uuid ELSE @,
                      !.current_wikipedia = IF changed THEN "None" ELSE @,
                      !.wiki_future = IF changed THEN uuid ELSE @]
    IN  [app |-> updated,
         panel |-> SpeciesDisplayContext(
                       detection, updated.current_wikipedia,
                       IF detection # None THEN get_history(st, label) ELSE None, FALSE)]

\* app.py lines 378-382, when the poll has consumed a batch
ReportAfterPoll(a, st) ==
    IF a.frozen_detection
    THEN [app |-> a, panel |-> a.frozen_context]
    ELSE HandleDetectionUpdate(a, st)

\* the history of the auto-captures after the dwell step took a to b
AutoCaptureLog(log, a, b, fired) ==
    IF fired THEN [count |-> log.count + 1, since |-> "fired"]
    ELSE IF b.last_detected_species # a.last_detected_species
         THEN [log EXCEPT !.since = "restarted"]
         ELSE log

(***************************************************************************)
(* The handlers of ZDexApp, run one at a time by the Tk event loop.  A     *)
(* handler that shows a message box stays in it until the box is closed,   *)
(* and timers fire meanwhile.                                              *)
(***************************************************************************)
\* the worker publishes the batch of a frame showing one of scenes:
\* pipeline.py lines 114-119 and _offer
BatchOf(scene) ==
    LET packet == FramePacket(<<720, 960, 3>>, DETECTION_INTERVAL_MS)
    IN  InferenceBatch(packet, infer(scene, packet.shape, packet.timestamp), TRUE)

BatchPublished(scenes) ==
    /\ \E scene \in scenes :
          results_queue' = offer(results_queue, DETECTION_QUEUE_SIZE, BatchOf(scene))
    /\ UNCHANGED <<ledger, appVars, now, frame_queue, analysis_queue, cameraVars, pipelineVars,
                   caller>>

\* _poll_detections, app.py lines 262-383, rescheduled every
\* DETECTION_INTERVAL_MS; the timer of a triggered auto-capture (100 ms) is
\* due before the next poll
PollDetections ==
    /\ app.polling_active
    /\ app.poll_due <= now
    /\ ~app.capture_timer
    /\ LET updated == results_queue # <<>>
           drained == DrainBatches(app, results_queue)
           dwelt == DwellStep(drained, now)
           latched == IF updated THEN FreezeStep(dwelt, store) ELSE dwelt
           shown == IF updated THEN ReportAfterPoll(latched, store)
                    ELSE [app |-> latched, panel |-> species_panel]
       IN  /\ app' = [shown.app EXCEPT !.poll_due = now + DETECTION_INTERVAL_MS]
           /\ species_panel' = shown.panel
           /\ auto_captures' = AutoCaptureLog(auto_captures, drained, dwelt,
                                              DwellFires(drained, now))
           /\ ledger' = IF Keeping("countdown")
                        THEN [ledger EXCEPT !.countdown = CountdownAfterPoll(drained, now, @)]
                        ELSE IF Keeping("steady")
                        THEN [ledger EXCEPT !.steady = SteadyThrough(app.detection_buffer,
                                                                     results_queue, now, @)]
                        ELSE IF Keeping("window")
                        THEN [ledger EXCEPT !.consumed =
                                 @ \o [i \in 1..Len(results_queue) |->
                                          results_queue[i].detections]]
                        ELSE ledger
    /\ results_queue' = <<>>
    /\ UNCHANGED <<now, frame_queue, analysis_queue, cameraVars, pipelineVars,
                   caller, store, start_report, serviceVars>>

\* _on_capture, app.py lines 429-478, up to the message box that confirms
\* the capture; started by the timer of an auto-capture (auto) or by the
\* capture button.  The location entry holds its default and the files of
\* the store can be written.
OnCapture(auto) ==
    /\ app.capture = None
    /\ IF auto THEN app.capture_timer ELSE app.capture_button = "normal"
    /\ \E saved \in BOOLEAN :
          LET detection == app.current_detection
              label == primary_label(detection).label
              entered == [app EXCEPT !.capture_timer = IF auto THEN FALSE ELSE @]
          IN  IF detection = None \/ ~app.latest_frame \/ ~saved
              THEN /\ app' = entered
                   /\ UNCHANGED <<store, gamification>>
              ELSE /\ SeenCount(get_history(store, label)) < MaxCaptures
                   /\ store' = record_capture(store, label, DefaultLocation, TRUE).records
                   /\ app' = [entered EXCEPT !.capture = [detection |-> detection]]
                   /\ gamification' =
                          record_sighting(gamification, label.species, label.common_name,
                                          DefaultLocation, primary_label(detection).score)
    /\ UNCHANGED <<ledger, now, queueVars, cameraVars, pipelineVars, caller,
                   species_panel, start_report, auto_captures, fetcher>>

AutoCaptureTimer == OnCapture(TRUE)

CaptureButton == OnCapture(FALSE)

\* _on_capture, app.py lines 480-504, once the message box is closed: the
\* context of the captured detection, the reset of the auto-capture state
\* and, on the first capture of a species without enrichment, a synchronous
\* Wikipedia fetch
OnCaptureDismissed ==
    /\ app.capture # None
    /\ LET detection == app.capture.detection
           label == primary_label(detection).label
           uuid == label.uuid
           history == get_history(store, label)
       IN  /\ species_panel' = SpeciesDisplayContext(detection, app.current_wikipedia,
                                                     history, app.frozen_detection)
           /\ \E fetched \in {uuid, "None"} :
                 app' = [app EXCEPT
                            !.capture = None,
                            !.auto_capture_triggered = FALSE,
                            !.detection_start_time = NoTime,
                            !.current_wikipedia =
                                IF seen_count(history) = 1 /\ @ = "None" THEN fetched ELSE @]
    /\ auto_captures' = IF auto_captures.since = "fired"
                        THEN [auto_captures EXCEPT !.since = "captured"]
                        ELSE auto_captures
    /\ UNCHANGED <<ledger, now, queueVars, cameraVars, pipelineVars, caller, store,
                   start_report, serviceVars>>

\* future.result() without the except clause: the exception ends the handler
CheckWikipediaFutureUncaught ==
    /\ app.wiki_future # "None"
    /\ \E outcome \in {"entry", "none", "raised"} :
          LET result == IF outcome = "entry" THEN app.wiki_future ELSE "None"
              shown == HandleDetectionUpdate(
                           [app EXCEPT !.current_wikipedia = result,
                                       !.wiki_future = "None"], store)
          IN  /\ IF outcome = "raised"
                 THEN UNCHANGED <<app, species_panel>>
                 ELSE /\ app' = shown.app
                      /\ species_panel' = shown.panel
              /\ ledger' = IF Keeping("lookups")
                           THEN [ledger EXCEPT !.lookup = LogLookup(@, outcome)]
                           ELSE ledger
    /\ UNCHANGED <<now, queueVars, cameraVars, pipelineVars, caller, store,
                   start_report, auto_captures, serviceVars>>

\* _check_wikipedia_future, app.py lines 413-427, when the future is done:
\* future.result() returns the entry fetched for the terms of the request,
\* returns None, or raises (CancelledError included, an Exception), which
\* the except clause turns into None
CheckWikipediaFuture ==
    /\ app.wiki_future # "None"
    /\ \E outcome \in {"entry", "none", "raised"} :
          LET result == IF outcome = "entry" THEN app.wiki_future ELSE "None"
              shown == HandleDetectionUpdate(
                           [app EXCEPT !.current_wikipedia = result,
                                       !.wiki_future = "None"], store)
          IN  /\ app' = shown.app
              /\ species_panel' = shown.panel
              /\ ledger' = IF Keeping("lookups")
                           THEN [ledger EXCEPT !.lookup = LogLookup(@, outcome)]
                           ELSE ledger
    /\ UNCHANGED <<now, queueVars, cameraVars, pipelineVars, caller, store,
                   start_report, auto_captures, serviceVars>>

\* _capture_another, app.py lines 577-585
CaptureAnother ==
    /\ app.capture = None
    /\ app.capture_another_button = "normal"
    /\ LET shown == HandleDetectionUpdate(
                        [app EXCEPT !.frozen_detection = FALSE,
                                    !.frozen_context = None,
                                    !.capture_another_button = "disabled"], store)
       IN  /\ app' = shown.app
           /\ species_panel' = shown.panel
    /\ ledger' = IF Keeping("countdown") THEN [ledger EXCEPT !.countdown = None]
                 ELSE ledger
    /\ UNCHANGED <<now, queueVars, cameraVars, pipelineVars, caller, store,
                   start_report, auto_captures, serviceVars>>

\* STORE.record_capture called for any label and location, as _on_capture
\* does at app.py line 444
RecordCapture ==
    /\ \E label \in Labels, location \in Locations, persisted \in BOOLEAN :
          LET r == record_capture(store, label, location, persisted)
          IN  /\ SeenCount(get_history(store, label)) < MaxCaptures
              /\ store' = r.records
              /\ ledger' = IF Keeping("captures")
                           THEN [ledger EXCEPT !.capture =
                                    [label |-> label, location |-> location,
                                     raised |-> r.raised, returned |-> r.returned]]
                           ELSE ledger
    /\ UNCHANGED <<now, queueVars, cameraVars, pipelineVars, caller, app, species_panel,
                   start_report, auto_captures, serviceVars>>

\* time passes by one detection interval, up to until
PollInterval(until) ==
    /\ now + DETECTION_INTERVAL_MS <= until
    /\ now' = now + DETECTION_INTERVAL_MS
    /\ UNCHANGED <<ledger, appVars, queueVars, cameraVars, pipelineVars, caller>>

(***************************************************************************)
(* Specifications.                                                         *)
(*   SpecCamera:   the camera controller under start() and stop(), its     *)
(*                 capture threads and the consumers of its queues.        *)
(*   SpecPipeline: the detection pipeline under start() and stop(), with   *)
(*                 the frames arriving from a running camera.              *)
(*   SpecFlow:     one capture thread, one worker and the two polling      *)
(*                 consumers, all running.                                 *)
(***************************************************************************)
CameraThread(c) ==
    \/ CamLoop(c)
    \/ CamRead(c)
    \/ CamOfferFramePut1(c)
    \/ CamOfferFrameEvict(c)
    \/ CamOfferFramePut2(c)
    \/ CamOfferAnalysisPut1(c)
    \/ CamOfferAnalysisEvict(c)
    \/ CamOfferAnalysisPut2(c)

WorkerThread(w) ==
    \/ WorkerGet(w)
    \/ WorkerClock(w)
    \/ WorkerRateLimit(w)
    \/ WorkerStamp(w)
    \/ WorkerInfer(w)
    \/ WorkerOfferPut1(w)
    \/ WorkerOfferEvict(w)
    \/ WorkerOfferPut2(w)

NextCamera ==
    \/ CameraStart
    \/ CameraStop
    \/ CameraJoinReturn
    \/ CameraRelease
    \/ \E c \in CameraIds : CamOpen(c)
    \/ \E c \in CameraIds : CamIsOpened(c)
    \/ \E c \in CameraIds : CamLoop(c)
    \/ \E c \in CameraIds : CamReadOffers(c)
    \/ \E c \in CameraIds : CamRelease(c)
    \/ PollFramesGet
    \/ AnalysisGet

SpecCamera == Init /\ [][NextCamera]_vars

\* the camera has been started and its device is open
CameraOpened(shape) ==
    [c \in CameraIds |->
        IF c = 1 THEN [NewThread EXCEPT !.pc = "loop", !.capture = "opened",
                                        !.shape = shape]
        ELSE NewThread]

InitPipeline ==
    /\ now = DETECTION_INTERVAL_MS
    /\ frame_queue = <<>>
    /\ analysis_queue = <<>>
    /\ results_queue = <<>>
    /\ camera_running = TRUE
    /\ camera_capture = 1
    /\ capture_thread = 1
    /\ \E shape \in FrameShapes : cam = CameraOpened(shape)
    /\ pipeline_running = FALSE
    /\ pipeline_worker = 0
    /\ worker = [w \in WorkerIds |-> NewWorker]
    /\ last_inference_ts = 0
    /\ caller = "ready"
    /\ published = NothingPublished
    /\ overlap = FALSE
    /\ AppConstructed

NextPipeline ==
    \/ Tick
    \/ PipelineStart
    \/ PipelineStop
    \/ PipelineJoinReturn
    \/ FrameArrives
    \/ \E w \in WorkerIds : WorkerGet(w)
    \/ \E w \in WorkerIds : WorkerClock(w)
    \/ \E w \in WorkerIds : WorkerRateLimit(w)
    \/ \E w \in WorkerIds : WorkerStamp(w)
    \/ \E w \in WorkerIds : WorkerInferOn(w, ControlScenes)
    \/ \E w \in WorkerIds : WorkerOffer(w)
    \/ PollDetectionsGet

SpecPipeline == InitPipeline /\ [][NextPipeline]_vars

\* the camera and the pipeline have been started, the device is open
InitFlow ==
    /\ now = DETECTION_INTERVAL_MS
    /\ frame_queue = <<>>
    /\ analysis_queue = <<>>
    /\ results_queue = <<>>
    /\ camera_running = TRUE
    /\ camera_capture = 1
    /\ capture_thread = 1
    /\ \E shape \in FrameShapes : cam = CameraOpened(shape)
    /\ pipeline_running = TRUE
    /\ pipeline_worker = 1
    /\ worker = [w \in WorkerIds |-> IF w = 1 THEN [NewWorker EXCEPT !.pc = "loop"]
                                     ELSE NewWorker]
    /\ last_inference_ts = 0
    /\ caller = "ready"
    /\ published = NothingPublished
    /\ overlap = FALSE
    /\ AppConstructed

NextFlow ==
    \/ Tick
    \/ CameraThread(1)
    \/ WorkerThread(1)
    \/ PollFramesGet
    \/ PollDetectionsGet

SpecFlow == InitFlow /\ [][NextFlow]_vars

\* the pipeline is running and one packet waits in analysis_queue
InitInfer ==
    /\ now = DETECTION_INTERVAL_MS
    /\ frame_queue = <<>>
    /\ \E shape \in FrameShapes :
          /\ analysis_queue = << FramePacket(shape, now) >>
          /\ cam = CameraOpened(shape)
    /\ results_queue = <<>>
    /\ camera_running = TRUE
    /\ camera_capture = 1
    /\ capture_thread = 1
    /\ pipeline_running = TRUE
    /\ pipeline_worker = 1
    /\ worker = [w \in WorkerIds |-> IF w = 1 THEN [NewWorker EXCEPT !.pc = "loop"]
                                     ELSE NewWorker]
    /\ last_inference_ts = 0
    /\ caller = "ready"
    /\ published = NothingPublished
    /\ overlap = FALSE
    /\ AppConstructed

NextInfer ==
    \/ WorkerGet(1)
    \/ WorkerClock(1)
    \/ WorkerRateLimit(1)
    \/ WorkerStamp(1)
    \/ WorkerInferOn(1, InferScenes)
    \/ WorkerOffer(1)

SpecInfer == InitInfer /\ [][NextInfer]_vars

(***************************************************************************)
(* SpecControl: start() and stop() of the camera controller and of the     *)
(* pipeline called in any order by one thread, with the threads they       *)
(* spawn; the ledger keeps the calls.  The device delivers no frame: a     *)
(* capture thread that has entered capture.read() stays in it, and the     *)
(* workers wait on an empty analysis_queue.                                *)
(***************************************************************************)
Assembled(keeps) ==
    /\ now = DETECTION_INTERVAL_MS
    /\ frame_queue = <<>>
    /\ analysis_queue = <<>>
    /\ results_queue = <<>>
    /\ camera_running = FALSE
    /\ camera_capture = 0
    /\ capture_thread = 0
    /\ cam = [c \in CameraIds |-> NewThread]
    /\ pipeline_running = FALSE
    /\ pipeline_worker = 0
    /\ worker = [w \in WorkerIds |-> NewWorker]
    /\ last_inference_ts = 0
    /\ caller = "ready"
    /\ published = NothingPublished
    /\ overlap = FALSE
    /\ ledger = [NoLedger EXCEPT !.keeps = keeps]
    /\ app = NewApp
    /\ species_panel = None
    /\ store = NoRecords
    /\ start_report = "none"
    /\ auto_captures = NoAutoCaptures

Constructed(keeps) == Assembled(keeps) /\ ServicesIdle

\* record_sighting called on a loaded system
RecordSighting ==
    /\ ledger.sightings.calls < MaxSightings
    /\ \E name \in SightingNames, location \in {"", DefaultLocation, "Temuco"},
          confidence \in Confidences :
          /\ gamification' = record_sighting(gamification, name.species, name.common_name,
                                             location, confidence)
          /\ ledger' = [ledger EXCEPT
                           !.sightings = LogSighting(@, gamification'.newly_unlocked)]
    /\ UNCHANGED <<now, queueVars, cameraVars, pipelineVars, caller, app, species_panel,
                   store, start_report, auto_captures, fetcher>>

InitAchievements ==
    /\ Assembled({"sightings"})
    /\ gamification \in LoadedSystems
    /\ fetcher = NoFetch

NextAchievements == RecordSighting

SpecAchievements == InitAchievements /\ [][NextAchievements]_vars

\* _fetch_candidate returns
FetchCandidate ==
    /\ fetcher.call = "_fetch_candidate"
    /\ fetcher.returned = Pending
    /\ fetcher' = [fetcher EXCEPT
                      !.returned = fetch_candidate(fetcher.exists, fetcher.pages,
                                                   fetcher.sparql_fails, fetcher.found,
                                                   fetcher.infobox)]
    /\ UNCHANGED <<ledger, now, queueVars, cameraVars, pipelineVars, caller, app,
                   species_panel, store, start_report, auto_captures, gamification>>

\* _extract_habitat_diet_wikidata returns
ExtractHabitatDietWikidata ==
    /\ fetcher.call = "_extract_habitat_diet_wikidata"
    /\ fetcher.returned = Pending
    /\ fetcher' = [fetcher EXCEPT
                      !.returned = extract_habitat_diet_wikidata(fetcher.pages,
                                                                 fetcher.answers)]
    /\ UNCHANGED <<ledger, now, queueVars, cameraVars, pipelineVars, caller, app,
                   species_panel, store, start_report, auto_captures, gamification>>

InitWikidata ==
    /\ Assembled({})
    /\ gamification = NewGamification
    /\ fetcher \in WikidataCalls

NextWikidata == ExtractHabitatDietWikidata

SpecWikidata == InitWikidata /\ [][NextWikidata]_vars

InitCandidate ==
    /\ Assembled({})
    /\ gamification = NewGamification
    /\ fetcher \in CandidateCalls

NextCandidate == FetchCandidate

SpecCandidate == InitCandidate /\ [][NextCandidate]_vars

InitControl == Constructed({"calls"})

NextControl ==
    \/ CameraStart
    \/ CameraStop
    \/ CameraJoinReturn
    \/ CameraRelease
    \/ \E c \in CameraIds : CamOpen(c)
    \/ \E c \in CameraIds : CamIsOpened(c)
    \/ \E c \in CameraIds : CamLoop(c)
    \/ \E c \in CameraIds : CamRelease(c)
    \/ PipelineStart
    \/ PipelineStop
    \/ PipelineJoinReturn
    \/ \E w \in WorkerIds : WorkerGet(w)

SpecControl == InitControl /\ [][NextControl]_vars

\* the camera controller alone, nothing consumes its frames; the ledger
\* keeps the calls
InitCameraCalls == Constructed({"calls"})

NextCameraCalls ==
    \/ CameraStart
    \/ CameraStop
    \/ CameraJoinReturn
    \/ CameraRelease
    \/ \E c \in CameraIds : CamOpen(c)
    \/ \E c \in CameraIds : CamIsOpened(c)
    \/ \E c \in CameraIds : CamLoop(c)
    \/ \E c \in CameraIds : CamReadOffers(c)
    \/ \E c \in CameraIds : CamRelease(c)

SpecCameraCalls == InitCameraCalls /\ [][NextCameraCalls]_vars

(***************************************************************************)
(* Specifications that follow the items through the buffers.               *)
(*   SpecBuffers: SpecFlow with the ledger of the three buffers.           *)
(*   SpecOffers:  the capture thread alone, nothing consumes.              *)
(***************************************************************************)
Running(keeps) ==
    /\ now = DETECTION_INTERVAL_MS
    /\ frame_queue = <<>>
    /\ analysis_queue = <<>>
    /\ results_queue = <<>>
    /\ camera_running = TRUE
    /\ camera_capture = 1
    /\ capture_thread = 1
    /\ \E shape \in FrameShapes : cam = CameraOpened(shape)
    /\ pipeline_running = TRUE
    /\ pipeline_worker = 1
    /\ worker = [w \in WorkerIds |-> IF w = 1 THEN [NewWorker EXCEPT !.pc = "loop"]
                                     ELSE NewWorker]
    /\ last_inference_ts = 0
    /\ caller = "ready"
    /\ published = NothingPublished
    /\ overlap = FALSE
    /\ ledger = [NoLedger EXCEPT !.keeps = keeps]
    /\ app = NewApp
    /\ species_panel = None
    /\ store = NoRecords
    /\ start_report = "returned"
    /\ auto_captures = NoAutoCaptures
    /\ ServicesIdle

InitBuffers == Running({"buffers"})

\* one run of the capture thread from the opened device to stop(), with the
\* consumers of its two buffers; the ledger keeps the reads
InitCameraReads == Running({"reads"})

NextCameraReads ==
    \/ CameraStop
    \/ CameraJoinReturn
    \/ CameraRelease
    \/ \E c \in CameraIds : CamLoop(c)
    \/ \E c \in CameraIds : CamReadOffers(c)
    \/ \E c \in CameraIds : CamRelease(c)
    \/ PollFramesGet
    \/ AnalysisGet

SpecCameraReads == InitCameraReads /\ [][NextCameraReads]_vars

NextBuffers ==
    \/ Tick
    \/ CameraThread(1)
    \/ WorkerGet(1)
    \/ WorkerClock(1)
    \/ WorkerRateLimit(1)
    \/ WorkerStamp(1)
    \/ WorkerInferOn(1, ControlScenes)
    \/ WorkerOfferPut1(1)
    \/ WorkerOfferEvict(1)
    \/ WorkerOfferPut2(1)
    \/ PollFramesGet
    \/ PollDetectionsGet

SpecBuffers == InitBuffers /\ [][NextBuffers]_vars

NextOffers ==
    \/ Tick
    \/ CameraThread(1)

SpecOffers == InitBuffers /\ [][NextOffers]_vars

(***************************************************************************)
(* SpecLive: the worker of a running pipeline for ever.  The capture       *)
(* thread goes on offering packets and time.time() goes on growing: at     *)
(* LiveHorizon the origin of the clock moves forward by TickMs, so that    *)
(* every time the program holds is TickMs less, and a time older than the  *)
(* origin is the origin, still a detection interval and more in the past.  *)
(* Every thread gets its turn, and time passes however the threads are     *)
(* scheduled.  Nothing consumes results_queue.                             *)
(***************************************************************************)
LiveHorizon == DETECTION_INTERVAL_MS + TickMs

Earlier(t) == Max(0, t - TickMs)

EarlierStamped(item) == [item EXCEPT !.timestamp = Earlier(@)]

EarlierAll(q) == [i \in 1..Len(q) |-> EarlierStamped(q[i])]

TimePasses ==
    /\ IF now + TickMs <= LiveHorizon
       THEN /\ now' = now + TickMs
            /\ UNCHANGED <<queueVars, worker, last_inference_ts, published>>
       ELSE /\ \A w \in WorkerIds : worker[w].pc \notin {"rate", "stamp"}
            /\ UNCHANGED now
            /\ last_inference_ts' = Earlier(last_inference_ts)
            /\ worker' = [w \in WorkerIds |->
                              [worker[w] EXCEPT !.now = Earlier(@),
                                                !.packet = EarlierStamped(@),
                                                !.batch = EarlierStamped(@)]]
            /\ frame_queue' = EarlierAll(frame_queue)
            /\ analysis_queue' = EarlierAll(analysis_queue)
            /\ results_queue' = EarlierAll(results_queue)
            /\ published' = [published EXCEPT !.timestamp = Earlier(@),
                                              !.started = Earlier(@)]
    /\ UNCHANGED <<ledger, appVars, cameraVars, pipeline_running, pipeline_worker,
                   overlap, caller>>

\* camera.py lines 79-82 seen from the pipeline, frame after frame
FrameSupplied ==
    /\ camera_running
    /\ analysis_queue' = offer(analysis_queue, DETECTION_QUEUE_SIZE,
                               FramePacket(cam[1].shape, now))
    /\ UNCHANGED <<ledger, appVars, now, frame_queue, results_queue, cameraVars,
                   pipelineVars, caller>>

WorkerLive ==
    \/ WorkerGet(1)
    \/ WorkerClock(1)
    \/ WorkerRateLimit(1)
    \/ WorkerStamp(1)
    \/ WorkerInferOn(1, ControlScenes)
    \/ WorkerOfferPut1(1)
    \/ WorkerOfferEvict(1)
    \/ WorkerOfferPut2(1)

InitLive == Running({})

NextLive ==
    \/ TimePasses
    \/ FrameSupplied
    \/ WorkerLive

FairLive ==
    /\ SF_vars(TimePasses)
    /\ WF_vars(FrameSupplied)
    /\ WF_vars(WorkerLive)

SpecLive == InitLive /\ [][NextLive]_vars /\ FairLive

(***************************************************************************)
(* SpecStop: a running pipeline that is stopped and not started again,     *)
(* with the frames of the camera still arriving.  The worker gets its      *)
(* turn, the inference call included, and so does the thread in stop().    *)
(***************************************************************************)
WorkerSteps(w) ==
    \/ WorkerGet(w)
    \/ WorkerClock(w)
    \/ WorkerRateLimit(w)
    \/ WorkerStamp(w)
    \/ WorkerInferOn(w, ControlScenes)
    \/ WorkerOffer(w)

NextStop ==
    \/ Tick
    \/ FrameArrives
    \/ PipelineStop
    \/ PipelineJoinReturn
    \/ \E w \in WorkerIds : WorkerSteps(w)
    \/ PollDetectionsGet

FairStop ==
    /\ \A w \in WorkerIds : WF_vars(WorkerSteps(w))
    /\ WF_vars(PipelineJoinReturn)

SpecStop == InitLive /\ [][NextStop]_vars /\ FairStop

(***************************************************************************)
(* Specifications of the stabilizer: the camera and the pipeline have been *)
(* started by _on_start_camera, a frame has been rendered and the first    *)
(* scheduled poll is due.                                                  *)
(*   SpecSmoothing: batches of every kind and the polls that consume them. *)
(*   SpecFreeze:    a wolf at 95 % or a cat, with the handlers of the      *)
(*                  buttons and of the Wikipedia future.                   *)
(*   SpecDwell:     a species that stays, over two dwell thresholds.       *)
(***************************************************************************)
StartedApp ==
    [NewApp EXCEPT !.polling_active = TRUE,
                   !.latest_frame = TRUE,
                   !.poll_due = DETECTION_INTERVAL_MS]

StabilizerStarted(keeps) ==
    /\ now = DETECTION_INTERVAL_MS
    /\ frame_queue = <<>>
    /\ analysis_queue = <<>>
    /\ results_queue = <<>>
    /\ camera_running = TRUE
    /\ camera_capture = 1
    /\ capture_thread = 1
    /\ \E shape \in FrameShapes : cam = CameraOpened(shape)
    /\ pipeline_running = TRUE
    /\ pipeline_worker = 1
    /\ worker = [w \in WorkerIds |-> IF w = 1 THEN [NewWorker EXCEPT !.pc = "loop"]
                                     ELSE NewWorker]
    /\ last_inference_ts = 0
    /\ caller = "ready"
    /\ published = NothingPublished
    /\ overlap = FALSE
    /\ ledger = [NoLedger EXCEPT !.keeps = keeps]
    /\ app = StartedApp
    /\ species_panel = None
    /\ store = NoRecords
    /\ start_report = "returned"
    /\ auto_captures = NoAutoCaptures
    /\ ServicesIdle

InitStabilizer == StabilizerStarted({})

NextSmoothing ==
    \/ PollInterval(MaxTime)
    \/ BatchPublished(StabilizerScenes)
    \/ PollDetections

SpecSmoothing == InitStabilizer /\ [][NextSmoothing]_vars

\* SpecWindow: a wolffish, a cat or nothing in front of the stabilizer for
\* four polls, enough batches to fill the window and evict from it; the
\* ledger keeps the detections of every consumed batch
WindowTime == 4 * DETECTION_INTERVAL_MS

InitWindow == StabilizerStarted({"window"})

NextWindow ==
    \/ PollInterval(WindowTime)
    \/ BatchPublished(TrackingScenes)
    \/ PollDetections

SpecWindow == InitWindow /\ [][NextWindow]_vars

NextFreeze ==
    \/ PollInterval(MaxTime)
    \/ BatchPublished(FreezeScenes)
    \/ PollDetections
    \/ CaptureButton
    \/ OnCaptureDismissed
    \/ CheckWikipediaFuture
    \/ CaptureAnother

SpecFreeze == InitStabilizer /\ [][NextFreeze]_vars

\* the capture store alone, from the empty store, with the ledger of the
\* calls of record_capture
InitStore == Constructed({"captures"})

NextStore == RecordCapture

SpecStore == InitStore /\ [][NextStore]_vars

\* the polls, the latch and the Wikipedia futures, with the ledger of the
\* futures; nothing is captured
InitLookups == StabilizerStarted({"lookups"})

NextLookups ==
    \/ PollInterval(MaxTime)
    \/ BatchPublished(FreezeScenes)
    \/ PollDetections
    \/ CheckWikipediaFuture
    \/ CaptureAnother

SpecLookups == InitLookups /\ [][NextLookups]_vars

NextDwell ==
    \/ PollInterval(MaxDwellTime)
    \/ BatchPublished(DwellScenes)
    \/ PollDetections
    \/ AutoCaptureTimer
    \/ OnCaptureDismissed

SpecDwell == InitStabilizer /\ [][NextDwell]_vars

\* the first poll after a dwell threshold that began at the second poll
FrozenDwellTime == 2 * DETECTION_INTERVAL_MS + AUTO_CAPTURE_THRESHOLD_SECONDS * 1000

\* the worker publishes at most one batch between two polls
BatchPublishedOnce(scenes) ==
    /\ results_queue = <<>>
    /\ BatchPublished(scenes)

\* one poll more than FrozenDwellTime
TrackingTime == FrozenDwellTime + DETECTION_INTERVAL_MS

\* SpecTracking: a wolffish, a cat or nothing in front of the stabilizer, one
\* batch a poll, up to the poll after the first auto-capture
NextTracking ==
    \/ PollInterval(TrackingTime)
    \/ BatchPublishedOnce(TrackingScenes)
    \/ PollDetections
    \/ AutoCaptureTimer
    \/ OnCaptureDismissed

SpecTracking == InitStabilizer /\ [][NextTracking]_vars

\* SpecRivals: a wolffish or a cat in front of the stabilizer, up to the
\* first poll after a dwell threshold; the ledger keeps since when the
\* smoothed detection has been of one species
InitRivals == StabilizerStarted({"steady"})

NextRivals ==
    \/ PollInterval(FrozenDwellTime)
    \/ BatchPublished(RivalScenes)
    \/ PollDetections
    \/ AutoCaptureTimer
    \/ OnCaptureDismissed

SpecRivals == InitRivals /\ [][NextRivals]_vars

\* SpecFrozenDwell: a wolf at 95 % or a cat that stays, up to the first poll
\* after a dwell threshold, with the latch, its release and the
\* auto-captures; the ledger keeps the countdown
InitFrozenDwell == StabilizerStarted({"countdown"})

NextFrozenDwell ==
    \/ PollInterval(FrozenDwellTime)
    \/ BatchPublished(FreezeScenes)
    \/ PollDetections
    \/ AutoCaptureTimer
    \/ OnCaptureDismissed
    \/ CaptureAnother

SpecFrozenDwell == InitFrozenDwell /\ [][NextFrozenDwell]_vars

(***************************************************************************)
(* C1.  Each of the three bounded buffers holds at most its capacity, in   *)
(* every state, whatever the interleaving of the steps of _offer and of    *)
(* the consumers.                                                          *)
(***************************************************************************)
BuffersBounded ==
    /\ Len(frame_queue) <= FRAME_QUEUE_SIZE
    /\ Len(analysis_queue) <= DETECTION_QUEUE_SIZE
    /\ Len(results_queue) <= DETECTION_QUEUE_SIZE

\* the third frame is being offered: frame_queue took it by eviction and
\* analysis_queue, still full, has just refused it
BuffersFull ==
    /\ cam[1].frame_count > FRAME_QUEUE_SIZE
    /\ cam[1].pc = "a_evict"
    /\ Len(frame_queue) = FRAME_QUEUE_SIZE
    /\ Len(analysis_queue) = DETECTION_QUEUE_SIZE

(***************************************************************************)
(* C2.  As claimed: two consecutive batches put into results_queue carry   *)
(* packet timestamps at least DETECTION_INTERVAL_MS apart.                 *)
(***************************************************************************)
BatchTimestampsSpaced ==
    [][(published # NothingPublished /\ published' # published)
          => published'.timestamp - published.timestamp >= DETECTION_INTERVAL_MS]_vars

(***************************************************************************)
(* C2, amended.  Two consecutive batches put into results_queue by the     *)
(* worker come from inferences whose start times (the clock values stored  *)
(* in _last_inference_ts) are at least DETECTION_INTERVAL_MS apart.        *)
(***************************************************************************)
InferenceStartsSpaced ==
    [][(published # NothingPublished /\ published' # published)
          => published'.started - published.started >= DETECTION_INTERVAL_MS]_vars

\* two batches are queued whose packets were captured less than the
\* interval apart
CloseTimestampsQueued ==
    /\ Len(results_queue) = 2
    /\ results_queue[2].timestamp - results_queue[1].timestamp < DETECTION_INTERVAL_MS
    /\ published.timestamp = results_queue[2].timestamp

(***************************************************************************)
(* C3.  When the inference call raises, the batch the worker hands to      *)
(* _offer is empty and carries the timestamp and the frame shape of the    *)
(* dequeued packet, and the worker is back at the head of its loop once    *)
(* _offer has returned: it does not end.                                   *)
(***************************************************************************)
Offering(w) == worker[w].pc \in {"put1", "evict", "put2"}

EmptyBatchOnFailure ==
    [][\A w \in WorkerIds :
          /\ (worker[w].pc = "infer" /\ worker'[w].outcome = "raised")
                => /\ worker'[w].pc = "put1"
                   /\ worker'[w].batch = DetectionBatch(worker[w].packet.timestamp,
                                                        worker[w].packet.shape, <<>>)
          /\ (Offering(w) /\ worker[w].outcome = "raised")
                => /\ worker'[w].pc \in {"put1", "evict", "put2", "loop"}
                   /\ Offering(w)' => worker'[w].batch = worker[w].batch
                   /\ worker'[w].pc = "loop"
                         => /\ results_queue' # <<>>
                            /\ results_queue'[Len(results_queue')] = worker[w].batch]_vars

\* the empty batch of a failed inference is the newest item of results_queue
\* and the worker is at the head of its loop
FailureBatchPublished ==
    /\ worker[1].pc = "loop"
    /\ results_queue # <<>>
    /\ results_queue[Len(results_queue)].detections = <<>>
    /\ published.timestamp = results_queue[Len(results_queue)].timestamp
    /\ published.outcome = "raised"
    /\ last_inference_ts > DETECTION_INTERVAL_MS

(***************************************************************************)
(* C9.  At most one thread executes the worker loop at any time.           *)
(***************************************************************************)
AliveWorkers == {w \in WorkerIds : Alive(worker[w])}

SingleWorker == Cardinality(AliveWorkers) <= 1

(***************************************************************************)
(* C4.  As claimed: infer never raises, whichever step fails on the frame. *)
(***************************************************************************)
InferNeverRaises == \A w \in WorkerIds : ~worker[w].result.raised

\* the classification is reached for a box of the scene and raises
ClassifyReachedRaises(scene, shape) ==
    /\ scene.predict = "boxes"
    /\ \E i \in 1..Len(scene.raws) :
          /\ Accepted(scene.raws[i])
          /\ ~Degenerate(ClampBox(scene.raws[i].coords, shape))
          /\ scene.raws[i].classify.raises

(***************************************************************************)
(* C4, amended.  infer returns a list and does not raise when the detector *)
(* call raises and when a box is degenerate once clamped; it raises        *)
(* exactly when the classification of the crop of an accepted,             *)
(* non-degenerate box raises.                                              *)
(***************************************************************************)
InferRaisesOnlyInClassify ==
    \A w \in WorkerIds :
        worker[w].pc = "put1"
            => (worker[w].result.raised
                    <=> ClassifyReachedRaises(worker[w].scene, worker[w].packet.shape))

\* infer has returned detections for a frame with a box that is degenerate
\* once clamped and whose crop could not have been classified
DegenerateBoxSkipped ==
    /\ worker[1].pc = "put1"
    /\ ~worker[1].result.raised
    /\ worker[1].result.detections # <<>>
    /\ \E i \in 1..Len(worker[1].scene.raws) :
          /\ Accepted(worker[1].scene.raws[i])
          /\ Degenerate(ClampBox(worker[1].scene.raws[i].coords, worker[1].packet.shape))
          /\ worker[1].scene.raws[i].classify.raises

(***************************************************************************)
(* C5.  As claimed: an auto-capture is triggered only if none has been     *)
(* triggered since the species key last changed (or the tracking last      *)
(* restarted).                                                             *)
(***************************************************************************)
AutoCaptureTriggered == auto_captures'.count > auto_captures.count

DwellReached ==
    /\ app'.poll_due # app.poll_due
    /\ ~app.frozen_detection
    /\ app'.current_detection # None
    /\ SpeciesKey(app'.current_detection) = app.last_detected_species
    /\ app.detection_start_time # NoTime
    /\ now - app.detection_start_time >= AUTO_CAPTURE_THRESHOLD_SECONDS * 1000
    /\ ~app.auto_capture_triggered

FrozenContextReported ==
    app.frozen_detection => species_panel = app.frozen_context

(***************************************************************************)
(* C7.  The smoothed detection is None when the window has no detection;   *)
(* otherwise it is the most recent entry of its species key, and no        *)
(* species key has more entries in the window.                             *)
(***************************************************************************)
SmoothedIsLatestOfMostFrequent ==
    LET buffer == app.detection_buffer
        valid == { i \in 1..Len(buffer) : buffer[i] # None }
        Entries(k) == Cardinality({ i \in valid : SpeciesKey(buffer[i]) = k })
    IN  IF valid = {}
        THEN app.current_detection = None
        ELSE \E i \in valid :
                /\ app.current_detection = buffer[i]
                /\ \A j \in valid : j > i => SpeciesKey(buffer[j]) # SpeciesKey(buffer[i])
                /\ \A j \in valid :
                      Entries(SpeciesKey(buffer[i])) >= Entries(SpeciesKey(buffer[j]))

\* the window [A, A, B, A, None]: the smoothed detection is the A at the
\* fourth place, which differs from the older A's
LatestOfThreeSmoothed ==
    /\ Len(app.detection_buffer) = DETECTION_BUFFER_MAXLEN
    /\ app.detection_buffer[5] = None
    /\ \A i \in {1, 2, 3, 4} : app.detection_buffer[i] # None
    /\ \A i \in {1, 2, 4} : SpeciesKey(app.detection_buffer[i]) = "lupus"
    /\ SpeciesKey(app.detection_buffer[3]) = "catus"
    /\ app.detection_buffer[4] # app.detection_buffer[2]
    /\ app.detection_buffer[4] # app.detection_buffer[1]
    /\ app.current_detection = app.detection_buffer[4]

(***************************************************************************)
(* C8.  The detections of every list infer returns, of every batch built   *)
(* from it and of every batch in results_queue are in non-increasing order *)
(* of primary_label.score.                                                 *)
(***************************************************************************)
ScoreOrdered(ds) ==
    \A i \in 1..(Len(ds) - 1) :
        primary_label(ds[i]).score >= primary_label(ds[i + 1]).score

DetectionsOrdered ==
    /\ \A w \in WorkerIds :
          /\ ScoreOrdered(worker[w].result.detections)
          /\ ScoreOrdered(worker[w].batch.detections)
    /\ \A i \in 1..Len(results_queue) : ScoreOrdered(results_queue[i].detections)

\* a batch of two detections is published whose boxes the detector gave in
\* increasing order of classification score
ReorderedBatchPublished ==
    /\ results_queue # <<>>
    /\ Len(results_queue[1].detections) = 2
    /\ primary_label(results_queue[1].detections[1]).score
          > primary_label(results_queue[1].detections[2]).score
    /\ results_queue[1].detections[1].bbox = ClampBox(InFrameToo, <<720, 960, 3>>)
    /\ results_queue[1].detections[2].bbox = ClampBox(InFrame, <<720, 960, 3>>)

(***************************************************************************)
(* C10.  When the device of a capture thread could not be opened, the      *)
(* start() call that spawned the thread has ended in an IOError.           *)
(***************************************************************************)
OpenFailureReported ==
    \A c \in CameraIds : cam[c].capture = "failed" => start_report = "IOError"

(***************************************************************************)
(* C11.  As claimed: whatever the consumer does in between, _offer takes   *)
(* an item out of the buffer only in its eviction step, which a call       *)
(* passes once; the item is the oldest and the buffer holds its capacity   *)
(* at that moment; the other steps of _offer take nothing out.             *)
(***************************************************************************)
EvictionProper(log, logAfter, q, qAfter, maxsize, evicting) ==
    logAfter.evicted # log.evicted
        => /\ evicting
           /\ qAfter = Tail(q)
           /\ Len(q) = maxsize

OfferDiscardsOldestWhenFull ==
    [][/\ EvictionProper(ledger.frame, ledger'.frame, frame_queue, frame_queue',
                         FRAME_QUEUE_SIZE,
                         cam[1].pc = "f_evict" /\ cam'[1].pc = "f_put2")
       /\ EvictionProper(ledger.analysis, ledger'.analysis, analysis_queue,
                         analysis_queue', DETECTION_QUEUE_SIZE,
                         cam[1].pc = "a_evict" /\ cam'[1].pc = "a_put2")
       /\ EvictionProper(ledger.results, ledger'.results, results_queue,
                         results_queue', DETECTION_QUEUE_SIZE,
                         worker[1].pc = "evict" /\ worker'[1].pc = "put2")]_vars

(***************************************************************************)
(* C12.  With no consumer, once the offers x1..xn to a buffer of capacity  *)
(* C have returned, the buffer holds the last min(n, C) of them, in the    *)
(* order of the offers.                                                    *)
(***************************************************************************)
LastOf(xs, n) == SubSeq(xs, Max(1, Len(xs) - n + 1), Len(xs))

OffersKeepLatest ==
    /\ cam[1].pc \notin {"f_evict", "f_put2"}
          => frame_queue = LastOf(ledger.frame.offered, FRAME_QUEUE_SIZE)
    /\ cam[1].pc \notin {"a_evict", "a_put2"}
          => analysis_queue = LastOf(ledger.analysis.offered, DETECTION_QUEUE_SIZE)

\* three packets of different timestamps have been offered to both buffers
ThreeOffersReturned ==
    /\ cam[1].pc = "loop"
    /\ Len(ledger.frame.offered) = FRAME_QUEUE_SIZE + 1
    /\ Len(ledger.analysis.offered) = DETECTION_QUEUE_SIZE + 1
    /\ \A i, j \in 1..Len(ledger.frame.offered) :
          i < j => ledger.frame.offered[i].timestamp < ledger.frame.offered[j].timestamp
    /\ Len(frame_queue) = FRAME_QUEUE_SIZE
    /\ Len(ledger.frame.evicted) = 1

(***************************************************************************)
(* C13.  For each buffer, the items the consumer has taken followed by the *)
(* items still queued are a subsequence of the items offered, in the order *)
(* of the offers; every offered item that is neither taken nor queued nor  *)
(* on its way in has been evicted.                                         *)
(***************************************************************************)
RECURSIVE IsSubsequence(_, _)
IsSubsequence(xs, ys) ==
    IF xs = <<>> THEN TRUE
    ELSE IF ys = <<>> THEN FALSE
    ELSE IF Head(xs) = Head(ys) THEN IsSubsequence(Tail(xs), Tail(ys))
    ELSE IsSubsequence(xs, Tail(ys))

DeliveryInOrder(log, q, offering) ==
    /\ IsSubsequence(log.delivered \o q, log.offered)
    /\ IsSubsequence(log.evicted, log.offered)
    /\ Len(log.offered) = Len(log.delivered) + Len(q) + Len(log.evicted)
                              + (IF offering THEN 1 ELSE 0)

DeliveredInOfferOrder ==
    /\ DeliveryInOrder(ledger.frame, frame_queue, cam[1].pc \in {"f_evict", "f_put2"})
    /\ DeliveryInOrder(ledger.analysis, analysis_queue,
                       cam[1].pc \in {"a_evict", "a_put2"})
    /\ DeliveryInOrder(ledger.results, results_queue,
                       worker[1].pc \in {"evict", "put2"})

\* of three frames of different timestamps the display consumer has taken
\* the first and the third; the second was evicted
GapInDelivery ==
    /\ Len(ledger.frame.offered) = 3
    /\ ledger.frame.offered[1].timestamp < ledger.frame.offered[2].timestamp
    /\ ledger.frame.offered[2].timestamp < ledger.frame.offered[3].timestamp
    /\ ledger.frame.delivered = << ledger.frame.offered[1], ledger.frame.offered[3] >>
    /\ ledger.frame.evicted = << ledger.frame.offered[2] >>
    /\ Len(ledger.results.delivered) > 0

(***************************************************************************)
(* C14.  While the freeze latch is active every step keeps it active and   *)
(* keeps the locked context as it is, except the release (_capture_another)*)
(* which clears both and reports the unlocked context of the current       *)
(* smoothed detection.  The locked context exists exactly while the latch  *)
(* is active.                                                              *)
(***************************************************************************)
Released ==
    /\ app.frozen_detection
    /\ ~app'.frozen_detection

LatchHeldUntilReleased ==
    [][/\ (app.frozen_detection /\ ~Released)
             => app'.frozen_context = app.frozen_context
       /\ Released
             => /\ app.capture_another_button = "normal"
                /\ app'.capture_another_button = "disabled"
                /\ app'.frozen_context = None
                /\ app'.current_detection = app.current_detection
                /\ species_panel' # None
                /\ species_panel'.detection = app.current_detection
                /\ ~species_panel'.locked
       /\ app'.frozen_detection <=> app'.frozen_context # None]_vars

\* the latch has been released over a wolf at 95 %: the panel shows its
\* unlocked context, several batches after the latch became active
ReleasedOverWolf ==
    /\ ~app.frozen_detection
    /\ app.capture_another_button = "disabled"
    /\ app.current_detection # None
    /\ primary_label(app.current_detection).score >= FREEZE_CONFIDENCE_THRESHOLD
    /\ species_panel = SpeciesDisplayContext(app.current_detection,
                                             app.current_wikipedia,
                                             store["u-wolf"], FALSE)
    /\ SeenCount(store["u-wolf"]) > 0
    /\ Len(app.detection_buffer) >= 3

(***************************************************************************)
(* C15.  A call of start() that finds the running flag set changes         *)
(* nothing: no thread, flag, buffer or rate-limit state.  No thread of a   *)
(* component comes to life in a step taken while its running flag is set.  *)
(***************************************************************************)
Called(call, callAfter, op) == callAfter # call /\ callAfter.op = op

NoCameraThreadBorn == \A c \in CameraIds : Alive(cam'[c]) => Alive(cam[c])
NoWorkerBorn == \A w \in WorkerIds : Alive(worker'[w]) => Alive(worker[w])

StartWhileRunningIsNoOp ==
    [][/\ (Called(ledger.camera_call, ledger'.camera_call, "start") /\ camera_running)
             => UNCHANGED <<cameraVars, queueVars, pipelineVars, caller>>
       /\ (Called(ledger.pipeline_call, ledger'.pipeline_call, "start")
               /\ pipeline_running)
             => UNCHANGED <<pipelineVars, queueVars, cameraVars, caller>>
       /\ camera_running => NoCameraThreadBorn /\ capture_thread' = capture_thread
       /\ pipeline_running => NoWorkerBorn /\ pipeline_worker' = pipeline_worker]_vars

\* both components have been started twice in a row and each runs one thread
StartedTwice ==
    /\ ledger.camera_call = [op |-> "start", running |-> TRUE, again |-> TRUE]
    /\ ledger.pipeline_call = [op |-> "start", running |-> TRUE, again |-> TRUE]
    /\ camera_running
    /\ pipeline_running
    /\ Cardinality({c \in CameraIds : Alive(cam[c])}) = 1
    /\ Cardinality({w \in WorkerIds : Alive(worker[w])}) = 1

(***************************************************************************)
(* C16.  Every call of stop() clears the running flag, creates no thread   *)
(* and returns to its caller with the flag clear; when start() was never   *)
(* called or the thread has ended it returns without waiting, and on a     *)
(* component never started no thread exists afterwards.                    *)
(***************************************************************************)
StopIsSafe ==
    [][/\ Called(ledger.camera_call, ledger'.camera_call, "stop")
             => /\ ~camera_running'
                /\ cam' = cam
                /\ caller' \in {"camera_join", "camera_release"}
                /\ (capture_thread = 0 \/ ~Alive(cam[capture_thread]))
                      => caller' = "camera_release"
       /\ (caller = "camera_release" /\ caller' # caller)
             => /\ caller' = "ready"
                /\ ~camera_running'
                /\ camera_capture' = 0
                /\ NoCameraThreadBorn
                /\ capture_thread = 0 => \A c \in CameraIds : cam'[c].pc = "unborn"
       /\ Called(ledger.pipeline_call, ledger'.pipeline_call, "stop")
             => /\ ~pipeline_running'
                /\ worker' = worker
                /\ caller' \in {"pipeline_join", "ready"}
                /\ (pipeline_worker = 0 \/ ~Alive(worker[pipeline_worker]))
                      => /\ caller' = "ready"
                         /\ pipeline_worker = 0
                               => \A w \in WorkerIds : worker'[w].pc = "unborn"
       /\ (caller = "pipeline_join" /\ caller' # caller)
             => /\ caller' = "ready"
                /\ ~pipeline_running'
                /\ NoWorkerBorn]_vars

\* stop() has been called twice in a row on each component, neither of
\* which was ever started
StoppedTwiceNeverStarted ==
    /\ ledger.camera_call = [op |-> "stop", running |-> FALSE, again |-> TRUE]
    /\ ledger.pipeline_call = [op |-> "stop", running |-> FALSE, again |-> TRUE]
    /\ caller = "ready"
    /\ capture_thread = 0
    /\ pipeline_worker = 0
    /\ \A c \in CameraIds : cam[c].pc = "unborn"
    /\ \A w \in WorkerIds : worker[w].pc = "unborn"

(***************************************************************************)
(* C17.  A capture thread whose device could not be opened never reads or  *)
(* offers a frame; its one remaining step clears the running flag, touches *)
(* no buffer and ends the thread only.  A start() that finds the flag      *)
(* clear sets it and spawns a thread that makes its own open attempt.      *)
(***************************************************************************)
OpenFailureHasNoEffect ==
    [][/\ \A c \in CameraIds :
             cam'[c].capture = "failed"
                => /\ cam'[c].pc \in {"isopened", "exited"}
                   /\ cam'[c].frame_count = 0
                   /\ (cam[c].pc = "isopened" /\ cam'[c].pc # "isopened")
                         => /\ cam'[c].pc = "exited"
                            /\ ~camera_running'
                            /\ UNCHANGED <<queueVars, caller, pipelineVars>>
       /\ (Called(ledger.camera_call, ledger'.camera_call, "start") /\ ~camera_running)
             => /\ camera_running'
                /\ cam'[capture_thread'].pc = "open"
                /\ cam'[capture_thread'].capture = "none"
                /\ ~Alive(cam[capture_thread'])]_vars

\* start() has been called twice in a row and the second call found the flag
\* clear: the first attempt failed to open the device; the thread of the
\* second has opened it and delivered a frame
RestartedAfterOpenFailure ==
    /\ ledger.camera_call = [op |-> "start", running |-> FALSE, again |-> TRUE]
    /\ camera_running
    /\ cam[capture_thread].capture = "opened"
    /\ cam[capture_thread].frame_count > 0
    /\ frame_queue # <<>>

(***************************************************************************)
(* C18.  A failed read leaves the buffers as they are and takes the        *)
(* capture thread back to the test of the running flag; the thread leaves  *)
(* the loop only from that test, and only when the flag is clear.          *)
(***************************************************************************)
ReadFailed(c) ==
    /\ cam[c].pc = "read"
    /\ cam'[c].pc # "read"
    /\ cam'[c].frame_count = cam[c].frame_count

ReadFailureRetries ==
    [][\A c \in CameraIds :
          /\ ReadFailed(c) => cam'[c].pc = "loop" /\ UNCHANGED queueVars
          /\ (cam[c].pc = "loop" /\ cam'[c].pc # "loop")
                => cam'[c].pc = (IF camera_running THEN "read" ELSE "release")
          /\ (cam'[c].pc \in {"release", "exited"} /\ cam[c].pc \in {"loop", "read"})
                => cam[c].pc = "loop" /\ ~camera_running]_vars

\* after MaxFailedReads failed reads in a row the thread is reading again,
\* and nothing has been published
StillReadingAfterFailures ==
    /\ ledger.failed_reads = MaxFailedReads
    /\ camera_running
    /\ cam[capture_thread].pc = "read"
    /\ cam[capture_thread].frame_count = 0
    /\ \A c \in CameraIds : c # capture_thread => ~Alive(cam[c])
    /\ frame_queue = <<>>
    /\ analysis_queue = <<>>

(***************************************************************************)
(* C19.  When the detector call raises, infer returns an empty list: the   *)
(* worker finds no exception and builds its batch from that list.          *)
(***************************************************************************)
DetectorFailureAbsorbed ==
    \A w \in WorkerIds :
        (worker[w].pc = "put1" /\ worker[w].scene.predict = "raises")
            => /\ ~worker[w].result.raised
               /\ worker[w].result.detections = <<>>
               /\ worker[w].outcome # "raised"

\* the worker has built a batch after an inference whose detector call raised
BatchAfterDetectorFailure ==
    /\ worker[1].pc = "put1"
    /\ worker[1].scene.predict = "raises"
    /\ worker[1].outcome = "returned"
    /\ worker[1].batch = DetectionBatch(worker[1].packet.timestamp,
                                        worker[1].packet.shape, <<>>)

(***************************************************************************)
(* C20.  The list infer returns has one DetectionResult for each raw       *)
(* output of an allowed class, of a confidence not below the threshold and *)
(* of a box that is not degenerate once clamped, and no other; every       *)
(* returned box lies within the frame with x1 < x2 and y1 < y2.            *)
(***************************************************************************)
Qualifies(raw, shape) ==
    LET b == ClampBox(raw.coords, shape)
    IN  /\ raw.cls_id \in ANIMAL_CLASS_IDS
        /\ raw.conf >= DETECTION_CONFIDENCE_THRESHOLD
        /\ b[1] < b[3]
        /\ b[2] < b[4]

WithinFrame(b, shape) ==
    /\ 0 <= b[1] /\ b[1] < b[3] /\ b[3] <= shape[2] - 1
    /\ 0 <= b[2] /\ b[2] < b[4] /\ b[4] <= shape[1] - 1

OnePerQualifying(ds, raws, shape) ==
    LET kept == { i \in 1..Len(raws) : Qualifies(raws[i], shape) }
    IN  /\ Len(ds) = Cardinality(kept)
        /\ \E f \in [1..Len(ds) -> kept] :
              /\ \A i, j \in 1..Len(ds) : i # j => f[i] # f[j]
              /\ \A i \in 1..Len(ds) :
                    /\ ds[i].bbox = ClampBox(raws[f[i]].coords, shape)
                    /\ ds[i].detection_confidence = raws[f[i]].conf
                    /\ ds[i].classification.hypotheses = raws[f[i]].classify.hypotheses

InferKeepsQualifying ==
    \A w \in WorkerIds :
        (worker[w].pc = "put1" /\ ~worker[w].result.raised
            /\ worker[w].scene.predict = "boxes")
            => /\ OnePerQualifying(worker[w].result.detections, worker[w].scene.raws,
                                   worker[w].packet.shape)
               /\ \A i \in 1..Len(worker[w].result.detections) :
                     WithinFrame(worker[w].result.detections[i].bbox,
                                 worker[w].packet.shape)

\* of three raw outputs infer has kept the one at the threshold and the one
\* reaching beyond the frame, clamped to the last pixels, and dropped the one
\* below the threshold
ClampedAndThresholdKept ==
    /\ worker[1].pc = "put1"
    /\ ~worker[1].result.raised
    /\ Len(worker[1].scene.raws) = 3
    /\ Len(worker[1].result.detections) = 2
    /\ \E i \in 1..3 : worker[1].scene.raws[i].conf < DETECTION_CONFIDENCE_THRESHOLD
    /\ \E i \in 1..2 :
          worker[1].result.detections[i].bbox
              = <<0, 0, worker[1].packet.shape[2] - 1, worker[1].packet.shape[1] - 1>>
    /\ \E i \in 1..2 :
          worker[1].result.detections[i].detection_confidence
              = DETECTION_CONFIDENCE_THRESHOLD

(***************************************************************************)
(* C21.  While the worker runs and packets keep arriving in analysis_queue *)
(* a batch is put into results_queue again and again, whatever the         *)
(* inference calls do, raising included.                                   *)
(***************************************************************************)
BatchPut ==
    \E w \in WorkerIds :
        /\ worker[w].pc \in {"put1", "put2"}
        /\ results_queue' = Append(results_queue, worker[w].batch)
        /\ worker'[w].pc = "loop"

BatchesKeepComing == []<><<BatchPut>>_vars

\* two inferences in a row have ended in the except clause, and the batch of
\* each is in results_queue
HeartbeatAfterFailures ==
    /\ Len(results_queue) = 2
    /\ results_queue[1].detections = <<>>
    /\ results_queue[2].detections = <<>>
    /\ results_queue[1].timestamp < results_queue[2].timestamp
    /\ published.outcome = "raised"
    /\ worker[1].pc = "loop"

(***************************************************************************)
(* C22.  Once stop() has cleared the flag a worker at the top of its loop  *)
(* leaves it, and a worker inside an iteration is not ended there: it goes *)
(* on to offer the batch of its packet; every worker then ends, and the    *)
(* thread in stop() comes back from its join.                              *)
(***************************************************************************)
IterationFinished ==
    [][\A w \in WorkerIds :
          (~pipeline_running /\ worker'[w] # worker[w])
             => /\ worker[w].pc = "loop" => worker'[w].pc = "exited"
                /\ worker[w].pc # "loop" => worker'[w].pc # "exited"
                /\ worker[w].pc = "put1"
                      => /\ results_queue' # <<>>
                         /\ results_queue'[Len(results_queue')] = worker[w].batch
                         /\ worker[w].batch.timestamp = worker[w].packet.timestamp]_vars

StopEndsWorker ==
    /\ IterationFinished
    /\ \A w \in WorkerIds : (~pipeline_running /\ Alive(worker[w])) ~> ~Alive(worker[w])
    /\ (caller = "pipeline_join") ~> (caller = "ready")

\* stop() has returned on the timeout of its join; the inference that was
\* running has completed since and its batch is about to be offered
StopReturnedBeforeWorker ==
    /\ ~pipeline_running
    /\ caller = "ready"
    /\ worker[1].pc = "put1"
    /\ worker[1].outcome = "returned"
    /\ worker[1].batch.detections # <<>>

(***************************************************************************)
(* C23.  When the result of the Wikipedia future is an exception the       *)
(* enrichment becomes None and the future is let go; the window, the       *)
(* smoothed detection, the dwell state, the latch with its locked context, *)
(* the polling timer, the buffers and the pipeline stay as they are.       *)
(***************************************************************************)
LookupEnded(outcome) ==
    /\ ledger'.lookup # ledger.lookup
    /\ ledger'.lookup.outcome = outcome

RecordCaptureAppendsOne ==
    [][LET call == ledger'.capture
           uuid == call.label.uuid
           before == store[uuid]
           after == store'[uuid]
       IN  /\ after # None
           /\ after.label_uuid = uuid
           /\ seen_count(after) = SeenCount(before) + 1
           /\ \A i \in 1..SeenCount(before) : after.captures[i] = before.captures[i]
           /\ last_location(after) = call.location
           /\ \A other \in LabelUuids \ {uuid} : store'[other] = store[other]
           /\ ~call.raised => call.returned = after]_vars

\* the second capture of the wolf, at another place than the first, has been
\* returned; the cat has a history and the wolffish none
SecondCaptureReturned ==
    /\ SeenCount(store["u-wolf"]) = 2
    /\ ledger.capture.returned = store["u-wolf"]
    /\ store["u-wolf"].captures[1].location = "Valparaiso"
    /\ last_location(store["u-wolf"]) = "Santiago"
    /\ store["u-cat"] # None
    /\ store["u-wolffish"] = None

(***************************************************************************)
(* C25.  The batch a worker offers carries the timestamp and the shape of  *)
(* the packet it dequeued and, when infer returned, the detections infer   *)
(* returned, whether or not the metrics logging that follows succeeded.    *)
(***************************************************************************)
BatchCarriesInferenceResult ==
    \A w \in WorkerIds :
        Offering(w)
            => /\ worker[w].batch.timestamp = worker[w].packet.timestamp
               /\ worker[w].batch.frame_shape = worker[w].packet.shape
               /\ ~worker[w].result.raised
                     => worker[w].batch.detections = worker[w].result.detections

(***************************************************************************)
(* C26.  The packet a worker has dequeued goes on to the inference exactly *)
(* when the clock read on dequeue is DETECTION_INTERVAL_MS or more past    *)
(* _last_inference_ts; otherwise the worker is back at its loop with no    *)
(* inference, no batch and no new timestamp.  The timestamp is set to that *)
(* clock value on the way into the call and the call, however it ends,     *)
(* leaves it there.                                                        *)
(***************************************************************************)
RateLimitDecides ==
    [][\A w \in WorkerIds :
          LET elapsed == worker[w].now - last_inference_ts
              moved == worker'[w] # worker[w]
          IN  /\ (worker[w].pc = "rate" /\ moved)
                    => IF elapsed >= DETECTION_INTERVAL_MS
                       THEN /\ worker'[w].pc = "stamp"
                            /\ worker'[w].packet = worker[w].packet
                       ELSE /\ worker'[w].pc = "loop"
                            /\ UNCHANGED <<results_queue, last_inference_ts, published>>
              /\ (worker'[w].pc = "stamp" /\ moved)
                    => worker[w].pc = "rate" /\ elapsed >= DETECTION_INTERVAL_MS
              /\ (worker'[w].pc = "infer" /\ moved)
                    => worker[w].pc = "stamp" /\ last_inference_ts' = worker[w].now
              /\ (worker[w].pc = "infer" /\ moved)
                    => Offering(w)' /\ UNCHANGED last_inference_ts
              /\ (Offering(w)' /\ ~Offering(w)) => worker[w].pc = "infer"]_vars

\* two packets have been dequeued: the inference on the first raised and its
\* empty batch was offered; the second came before the interval was over
\* and is gone, with no batch
PacketDroppedAfterFailure ==
    /\ Len(ledger.analysis.delivered) = 2
    /\ Len(ledger.results.offered) = 1
    /\ ledger.results.offered[1].detections = <<>>
    /\ ledger.results.offered[1].timestamp = ledger.analysis.delivered[1].timestamp
    /\ published.outcome = "raised"
    /\ published.started = last_inference_ts
    /\ worker[1].pc = "loop"
    /\ now - last_inference_ts < DETECTION_INTERVAL_MS

(***************************************************************************)
(* C27.  The latch goes from inactive to active in a poll that has taken   *)
(* at least one batch out of results_queue and whose smoothed detection    *)
(* has a classifier score of FREEZE_CONFIDENCE_THRESHOLD or more, and in   *)
(* every such poll that finds it inactive; the locked context then holds   *)
(* that detection.  An active latch has a locked context.                  *)
(***************************************************************************)
Polled == app'.poll_due # app.poll_due

ScoreFreezes(d) ==
    /\ d # None
    /\ primary_label(d).score >= FREEZE_CONFIDENCE_THRESHOLD

LatchSetByScore ==
    [][/\ (~app.frozen_detection /\ app'.frozen_detection)
             => /\ Polled
                /\ results_queue # <<>>
                /\ ScoreFreezes(app'.current_detection)
                /\ app'.frozen_context # None
                /\ app'.frozen_context.detection = app'.current_detection
                /\ app'.frozen_context.locked
       /\ (Polled /\ results_queue # <<>> /\ ~app.frozen_detection
              /\ ScoreFreezes(app'.current_detection))
             => app'.frozen_detection
       /\ app'.frozen_detection => app'.frozen_context # None]_vars

\* the latch is active over a wolf that the detector gave less than the
\* threshold and the classifier more; the cat before it, which the detector
\* gave the threshold and the classifier less, was polled without a latch
LatchedOnScoreNotConfidence ==
    /\ app.frozen_detection
    /\ app.frozen_context.detection.detection_confidence < FREEZE_CONFIDENCE_THRESHOLD
    /\ ScoreFreezes(app.frozen_context.detection)
    /\ Len(app.detection_buffer) >= 2
    /\ app.detection_buffer[1] # None
    /\ app.detection_buffer[1].detection_confidence >= FREEZE_CONFIDENCE_THRESHOLD
    /\ ~ScoreFreezes(app.detection_buffer[1])
    /\ species_panel # None
    /\ species_panel.locked

(***************************************************************************)
(* C28.  A poll that finds the latch active leaves no dwell start behind,  *)
(* schedules no auto-capture and gives the canvas the countdown None.      *)
(***************************************************************************)
FrozenPollSkipsDwell ==
    [][(Polled /\ app.frozen_detection)
          => /\ app'.detection_start_time = NoTime
             /\ app'.last_detected_species = "None"
             /\ ~app'.auto_capture_triggered
             /\ ~app'.capture_timer
             /\ auto_captures'.count = auto_captures.count
             /\ ledger'.countdown = None]_vars

\* the wolf has been the smoothed detection for the dwell threshold and more
\* with the latch active at every poll: no auto-capture has been triggered
FrozenOverThreshold ==
    /\ app.frozen_detection
    /\ app.frozen_context.detection = app.current_detection
    /\ now - app.current_detection.frame_timestamp >= 0
    /\ now >= DETECTION_INTERVAL_MS + AUTO_CAPTURE_THRESHOLD_SECONDS * 1000
    /\ app.poll_due > now
    /\ app.capture_another_button = "normal"
    /\ Len(app.detection_buffer) = DETECTION_BUFFER_MAXLEN
    /\ \A i \in 1..Len(app.detection_buffer) : ScoreFreezes(app.detection_buffer[i])
    /\ auto_captures.count = 0
    /\ app.detection_start_time = NoTime
    /\ ledger.countdown = None

AutoCaptureAfterSteadyDwell ==
    [][(Polled /\ app'.capture_timer)
          => /\ ledger'.steady.key = KeyOf(app'.current_detection)
             /\ now - ledger'.steady.since >= AUTO_CAPTURE_THRESHOLD_SECONDS * 1000]_vars

(***************************************************************************)
(* C31.  A poll that finds results_queue empty leaves the tracked key, the *)
(* dwell start and auto_capture_triggered as they were and triggers no     *)
(* auto-capture.                                                           *)
(***************************************************************************)
DwellOnlyOnNewBatch ==
    [][(Polled /\ results_queue = <<>>)
          => /\ app'.last_detected_species = app.last_detected_species
             /\ app'.detection_start_time = app.detection_start_time
             /\ app'.auto_capture_triggered = app.auto_capture_triggered
             /\ ~app'.capture_timer
             /\ auto_captures'.count = auto_captures.count]_vars

(***************************************************************************)
(* C32.  The sliding window never holds more than DETECTION_BUFFER_MAXLEN  *)
(* entries and holds, in the order of consumption, the first detection (or *)
(* None) of each of the last min(n, DETECTION_BUFFER_MAXLEN) batches of    *)
(* the n consumed so far.                                                  *)
(***************************************************************************)
WindowIsLastBatches ==
    LET n == Len(ledger.consumed)
        kept == IF n < DETECTION_BUFFER_MAXLEN THEN n ELSE DETECTION_BUFFER_MAXLEN
        Top(detections) == IF detections = <<>> THEN None ELSE detections[1]
    IN  /\ Len(app.detection_buffer) = kept
        /\ \A i \in 1..kept :
              app.detection_buffer[i] = Top(ledger.consumed[n - kept + i])

\* seven batches have been consumed, the first an empty one and the third a
\* cat, and the full window begins with that cat
WindowEvictedOldest ==
    /\ Len(ledger.consumed) = 7
    /\ ledger.consumed[1] = <<>>
    /\ ledger.consumed[2] # <<>>
    /\ Len(app.detection_buffer) = DETECTION_BUFFER_MAXLEN
    /\ KeyOf(app.detection_buffer[1]) = "catus"
    /\ KeyOf(app.detection_buffer[2]) = "lupus"
    /\ app.detection_buffer[5] = None

(***************************************************************************)
(* C33.  When several species keys share the highest count among the       *)
(* entries of the window that are not None, the smoothed detection is of   *)
(* the one of them met first from the oldest entry on (as the code has it) *)
(* or from the newest entry on (as the claim has it).                      *)
(***************************************************************************)
WindowPlaces == { i \in 1..Len(app.detection_buffer) : app.detection_buffer[i] # None }

WindowCount(key) ==
    Cardinality({ i \in WindowPlaces : SpeciesKey(app.detection_buffer[i]) = key })

\* the places of the window whose species key has the highest count
TiedPlaces ==
    { i \in WindowPlaces :
        \A j \in WindowPlaces : WindowCount(SpeciesKey(app.detection_buffer[i]))
                                    >= WindowCount(SpeciesKey(app.detection_buffer[j])) }

WindowTied ==
    \E i, j \in TiedPlaces :
        SpeciesKey(app.detection_buffer[i]) # SpeciesKey(app.detection_buffer[j])

TieGoesToOldest ==
    WindowTied
        => \E i \in TiedPlaces :
              /\ \A j \in TiedPlaces : i <= j
              /\ KeyOf(app.current_detection) = SpeciesKey(app.detection_buffer[i])

TieGoesToNewest ==
    WindowTied
        => \E i \in TiedPlaces :
              /\ \A j \in TiedPlaces : i >= j
              /\ KeyOf(app.current_detection) = SpeciesKey(app.detection_buffer[i])

\* the window [wolffish, wolffish, cat, cat]: the smoothed detection is the
\* second wolffish, although the cat is the more recent of the two species
TieWonByOlderSpecies ==
    /\ Len(app.detection_buffer) = 4
    /\ \A i \in 1..4 : app.detection_buffer[i] # None
    /\ \A i \in {1, 2} : SpeciesKey(app.detection_buffer[i]) = "lupus"
    /\ \A i \in {3, 4} : SpeciesKey(app.detection_buffer[i]) = "catus"
    /\ app.current_detection = app.detection_buffer[2]

(***************************************************************************)
(* C34.  With one producer per buffer, the step at which an _offer call    *)
(* returns, its first put or its second, leaves the offered item at the    *)
(* tail of the buffer, whatever the consumer did between the steps.        *)
(***************************************************************************)
OfferReturned(pc, pcAfter, puts) == pc \in puts /\ pcAfter \notin puts

Enqueued(q, item) == q # <<>> /\ q[Len(q)] = item

OfferEnqueuesItem ==
    [][/\ OfferReturned(cam[1].pc, cam'[1].pc, {"f_put1", "f_evict", "f_put2"})
             => Enqueued(frame_queue', cam[1].packet)
       /\ OfferReturned(cam[1].pc, cam'[1].pc, {"a_put1", "a_evict", "a_put2"})
             => Enqueued(analysis_queue', cam[1].packet)
       /\ OfferReturned(worker[1].pc, worker'[1].pc, {"put1", "evict", "put2"})
             => Enqueued(results_queue', worker[1].batch)]_vars

\* the worker found results_queue full, the consumer then emptied it before
\* the eviction step, which found nothing to take, and the second put has
\* enqueued the batch as the only item
OfferedIntoDrainedBuffer ==
    /\ worker[1].pc = "loop"
    /\ Len(ledger.results.offered) = DETECTION_QUEUE_SIZE + 1
    /\ Len(ledger.results.delivered) = DETECTION_QUEUE_SIZE
    /\ ledger.results.evicted = <<>>
    /\ results_queue = << ledger.results.offered[DETECTION_QUEUE_SIZE + 1] >>

(***************************************************************************)
(* C35.  The context the species panel was last given, the locked snapshot *)
(* included, holds with its detection no enrichment or the enrichment      *)
(* fetched for the label of that detection.                                *)
(***************************************************************************)
EnrichmentMatches(context) ==
    (context # None /\ context.detection # None /\ context.wikipedia # "None")
        => context.wikipedia = primary_label(context.detection).label.uuid

EnrichmentOfReportedSpecies ==
    /\ EnrichmentMatches(species_panel)
    /\ EnrichmentMatches(app.frozen_context)

(***************************************************************************)
(* C36.  A capture recorded while the latch is active goes to the history  *)
(* of the label of the detection held in the locked context.               *)
(***************************************************************************)
CaptureOfLockedSpecies ==
    [][app.frozen_detection
          => \A u \in LabelUuids :
                store'[u] # store[u]
                    => u = primary_label(app.frozen_context.detection).label.uuid]_vars

(***************************************************************************)
(* C37.  The label of the smoothed detection has, by uuid, at least as     *)
(* many entries in the window as any other label; and a poll with the      *)
(* latch inactive that ends with a smoothed detection of another uuid than *)
(* the one before it starts the dwell anew.                                *)
(***************************************************************************)
UuidOf(d) == primary_label(d).label.uuid

WindowCountOfUuid(a, uuid) ==
    Cardinality({ i \in 1..Len(a.detection_buffer) :
                    /\ a.detection_buffer[i] # None
                    /\ UuidOf(a.detection_buffer[i]) = uuid })

VoteByUuid(a) ==
    a.current_detection # None
        => \A uuid \in LabelUuids :
              WindowCountOfUuid(a, UuidOf(a.current_detection))
                  >= WindowCountOfUuid(a, uuid)

SameSpeciesIffSameUuid ==
    [][/\ VoteByUuid(app')
       /\ (/\ Polled
           /\ ~app.frozen_detection
           /\ app.current_detection # None
           /\ app'.current_detection # None
           /\ UuidOf(app'.current_detection) # UuidOf(app.current_detection))
             => app'.detection_start_time = now]_vars

\* C38: every call of record_sighting returns an achievement exactly when
\* the call takes its progress from under the target to the target or over
\* it and the achievement was not yet unlocked, returns it once, no
\* achievement is returned twice over the calls, and an unlocked achievement
\* stays unlocked
UnlockedOnceAndForGood ==
    [][ledger'.sightings.calls = ledger.sightings.calls + 1 =>
        \A id \in AchievementIds :
           LET before == gamification.achievements[id]
               after == gamification'.achievements[id]
               returned == Cardinality({ i \in 1..Len(gamification'.newly_unlocked) :
                                           gamification'.newly_unlocked[i] = id })
           IN  /\ returned <= 1
               /\ returned = 1 <=> (~before.unlocked /\ is_complete(after))
               /\ returned = 1 => ~is_complete(before)
               /\ ledger'.sightings.returned[id] <= 1
               /\ before.unlocked => after.unlocked
               /\ after.unlocked => (before.unlocked \/ returned = 1)]_vars

\* the tenth cat unlocked cat_lover, the eleventh left it unlocked and was
\* not given it again
CatLoverUnlockedOnce ==
    /\ ledger.sightings.returned["cat_lover"] = 1
    /\ gamification.achievements["cat_lover"].unlocked
    /\ gamification.achievements["cat_lover"].progress > AchievementTargets["cat_lover"]
    /\ gamification.newly_unlocked = <<>>
\* C39: the entry _fetch_candidate returns carries the habitat and the diet
\* that Wikidata yielded, and the infobox value only in a field for which
\* Wikidata yielded nothing
WikidataBeforeInfobox ==
    (fetcher.call = "_fetch_candidate" /\ fetcher.returned \notin {Pending, None}) =>
        LET props == extract_wikidata_properties(fetcher.pages, fetcher.sparql_fails,
                                                 fetcher.found)
            parsed == extract_habitat_diet(fetcher.infobox)
            entry == fetcher.returned
        IN  /\ entry.habitat = IF props["habitat"] # "None" THEN props["habitat"]
                               ELSE parsed.habitat
            /\ entry.diet = IF props["diet"] # "None" THEN props["diet"]
                            ELSE parsed.diet
\* the first binding of the answer for a label carries a label
HasLabel(answer) ==
    answer.bindings # <<>> /\ answer.bindings[1].valueLabel # "None"

\* the label of the first binding of the first of the labels tried that has
\* one, None where neither has
FirstLabelled(answers, labels) ==
    IF HasLabel(answers[labels[1]]) THEN answers[labels[1]].bindings[1].valueLabel
    ELSE IF HasLabel(answers[labels[2]]) THEN answers[labels[2]].bindings[1].valueLabel
    ELSE "None"

\* one of the requests made for a field fails: the second label is only
\* asked for when the first gave nothing
RequestFails(answers, labels) ==
    \/ answers[labels[1]].fails
    \/ ~HasLabel(answers[labels[1]]) /\ answers[labels[2]].fails

\* C40: _extract_habitat_diet_wikidata always returns a pair: (None, None)
\* when the pageprops response cannot be read, names no page or no Wikidata
\* item, or a request made fails; otherwise, for habitat and for diet each,
\* the label of the first binding of the first property label that has one,
\* None when neither label has
WikidataFirstLabelOrNone ==
    (fetcher.call = "_extract_habitat_diet_wikidata" /\ fetcher.returned # Pending) =>
        LET pair == fetcher.returned
            answers == fetcher.answers
        IN  /\ DOMAIN pair = {"habitat", "diet"}
            /\ IF \/ fetcher.pages # "item"
                  \/ RequestFails(answers, HabitatLabels)
                  \/ RequestFails(answers, DietLabels)
               THEN pair = NoHabitatDiet
               ELSE /\ pair.habitat = FirstLabelled(answers, HabitatLabels)
                    /\ pair.diet = FirstLabelled(answers, DietLabels)

\* the habitat comes from the second label, whose answer has two bindings,
\* and the diet has no binding under either label
HabitatFromSecondLabelDietNone ==
    /\ fetcher.call = "_extract_habitat_diet_wikidata"
    /\ fetcher.returned = [habitat |-> "first habitat_es", diet |-> "None"]
    /\ fetcher.pages = "item"
    /\ fetcher.answers["habitat"].bindings = <<>>
    /\ Len(fetcher.answers["habitat_es"].bindings) = 2
    /\ fetcher.answers["diet"].bindings = <<>>
    /\ fetcher.answers["feeding"].bindings = <<>>
====
